---- MODULE Spec2Model ----
(***************************************************************************)
(* Verification model of whatsapp-mcp: the webhook delivery subsystem      *)
(* (package webhook), the chat/message store (package storage), the        *)
(* ingestion handlers (whatsapp/handlers.go) and the JID canonicaliser.    *)
(***************************************************************************)
EXTENDS Integers, Sequences, FiniteSets, TLC

VARIABLES
    \* ---- webhook manager (webhook/webhook.go) ----
    cfgMaxRetries,     \* Config.MaxRetries as LoadConfig returns it
    deliveryChan,      \* buffered channel of *deliveryTask (FIFO)
    chanClosed,        \* close(m.deliveryChan) has run
    ctxDone,           \* m.cancel() has run
    workerPc,          \* per worker goroutine: "select" | "deliver" | "exited"
    workerTask,        \* the task a worker holds while delivering
    retries,           \* retry goroutines waiting to re-enqueue: [task, delay]
    deliveries,        \* webhook_deliveries rows written by RecordDelivery
    attemptsMade,      \* POSTs performed per (webhook, payload id)
    emitPc,            \* EmitMessageEvent: "idle" | "send"
    emitQueue,         \* webhooks still to iterate in the range loop
    emitPayload,       \* payload built by buildMessagePayload for this call
    nextUUID,          \* number of uuid.New() calls so far
    emitted,           \* number of EmitMessageEvent calls so far
    dropped,           \* tasks dropped on a full queue
    producerPanicked,  \* EmitMessageEvent panicked in the calling handler
    crashed,           \* an unrecovered panic in a manager goroutine killed the process
    mainPc,            \* main(): "running" | "cancel" | "close" | "wait" | "disconnect" | "done"
    \* ---- message store (package storage) ----
    chats,             \* table chats: jid -> row
    messages,          \* table messages: id -> row
    \* ---- ingestion handlers (whatsapp/handlers.go) ----
    lidMap,            \* the protocol store's LID -> phone-number mapping
    livePc,            \* handleMessage/processMessageData: "idle" | "saveMessage"
    liveMsg,           \* the storage.Message processMessageData is about to save
    hsPc,              \* handleHistorySync: "idle" | "chats" | "bulk" | "done"
    hsPending,         \* chatMap entries not yet passed to SaveChat
    hsMsgs,            \* allMessages of the event being handled
    hsBulkCalls,       \* SaveBulk calls made for the event being handled
    hsBulkOk,          \* whether the last SaveBulk call returned nil
    \* ---- SaveChat call history, per jid ----
    gPush,             \* last non-empty PushName passed to a successful SaveChat
    gContact,          \* last non-empty ContactName passed to a successful SaveChat
    gMaxTime,          \* largest LastMessageTime passed to a successful SaveChat
    gFirstGroup,       \* IsGroup of the SaveChat call that created the row
    gLast,             \* PushName and ContactName of the last successful SaveChat
    \* ---- normalizeJID round trip ----
    jidPc,             \* "in" | "once" | "twice"
    jidIn,             \* the JID given to normalizeJID
    jidOut,            \* normalizeJID(jidIn)
    jidOut2,           \* normalizeJID(ParseJID(jidOut))
    \* ---- on-demand history sync (whatsapp/client.go RequestHistorySync) ----
    reqPc,             \* per call: "idle" | "waiting" | "returned"
    reqArgs,           \* per call: canonical jid, count, waitForSync, anchor timestamp
    reqResult,         \* per call: what it returned
    historySyncChans,  \* c.historySyncChans: canonical jid -> the call whose channel is registered
    syncChan,          \* per call: its syncChan (buffer 1) holds a signal
    reqHandled,        \* per call: an ON_DEMAND batch of its chat was handled to the end
                       \* while the call was registered
    sentRequests,      \* history requests handed to the protocol client (SendMessage)
    hsEvents,          \* HistorySync events handled so far
    hsLast,            \* the HistorySync event handled last: its messages, the calls signalled
    \* ---- migration runner (storage Migrator) ----
    migrationsFS,      \* the embedded migrations directory: filename -> bytes
    schema_migrations, \* table schema_migrations: version -> row
    schemaObjects,     \* migration SQL whose effects are committed: <<version, SQL>>
    migPc,             \* Migrate/MigrateTo: "idle" | "apply" | "ok" | "error"
    migToApply,        \* migrations the running call has still to apply
    migRun,            \* the running (or last) call: both tables as it found them, the
                       \* applyMigration calls it made, and what came before it
    migNow,            \* time.Now().Unix(): a tick per run and per change between runs
    migLast,           \* the last thing done: "Migrate" | "MigrateTo" | "embed" | "lose"
    \* ---- webhook registry (webhook/handler.go, storage/webhooks.go) ----
    registrations,     \* table webhook_registrations as the admin API writes it: id -> row
    recorded,          \* every webhook_deliveries row RecordDelivery has inserted
    uuids,             \* ids handed out by uuid.New() in CreateWebhook
    adminOps,          \* registry operations performed
    \* ---- admin endpoints (main.go mux, webhook/handler.go) ----
    httpReq,           \* the last request served: its number and Authorization header
    httpStatus,        \* how it was answered: "401" | "handled" (passed to a handler)
    storeReads,        \* reads of the registry and of the delivery records by handlers
    testDeliveries,    \* outbound test deliveries made
    \* ---- send_message (whatsapp/client.go SendTextMessage) ----
    sendRes,           \* the last SendTextMessage call: returned nil, its chat, the sent id
    sends,             \* SendTextMessage calls so far
    \* ---- read tools (mcp/handlers.go) ----
    toolCall,          \* the last tool call: tool and arguments
    toolRes,           \* what it returned: an error result, or the rows found
    media_metadata,    \* the media_metadata table: message_id -> row
    downloads,         \* the download goroutines started, in order
    mediaLast,         \* the Message event handleMessage handled last
    mediaEvents,       \* Message events handled with their media step
    clientCancelled,   \* Disconnect has cancelled the client-wide context
    mediaFiles,        \* files under the media root: path -> "empty" | "data"
    push_names,        \* the push_names table: jid -> push_name
    nameEvents         \* events handled with their push-name step

whVars == <<cfgMaxRetries, deliveryChan, chanClosed, ctxDone, workerPc, workerTask,
            retries, deliveries, attemptsMade, emitPc, emitQueue, emitPayload,
            nextUUID, emitted, dropped, producerPanicked, crashed, mainPc>>

stVars == <<chats, messages, livePc, liveMsg, hsPc, hsPending, hsMsgs, hsBulkCalls, hsBulkOk>>

ghostVars == <<gPush, gContact, gMaxTime, gFirstGroup, gLast>>

jidVars == <<jidPc, jidIn, jidOut, jidOut2>>

syncVars == <<reqPc, reqArgs, reqResult, historySyncChans, syncChan, reqHandled,
              sentRequests, hsEvents, hsLast>>

\* the state of the subsystems below the handlers
migVars == <<migrationsFS, schema_migrations, schemaObjects, migPc, migToApply, migRun,
             migNow, migLast>>

regVars == <<registrations, recorded, uuids, adminOps>>

httpVars == <<httpReq, httpStatus, storeReads, testDeliveries>>

sendVars == <<sendRes, sends>>

queryVars == <<toolCall, toolRes>>

mediaVars == <<media_metadata, downloads, mediaLast, mediaEvents, clientCancelled,
               mediaFiles>>

nameVars == <<push_names, nameEvents>>

extVars == <<syncVars, migVars, regVars, httpVars, sendVars, queryVars, mediaVars, nameVars>>
extButSync == <<migVars, regVars, httpVars, sendVars, queryVars, mediaVars, nameVars>>
extButMig == <<syncVars, regVars, httpVars, sendVars, queryVars, mediaVars, nameVars>>
extButReg == <<syncVars, migVars, sendVars, queryVars, mediaVars, nameVars>>
extButSend == <<syncVars, migVars, regVars, httpVars, queryVars, mediaVars, nameVars>>
extButQuery == <<syncVars, migVars, regVars, httpVars, sendVars, mediaVars, nameVars>>
extButMedia == <<syncVars, migVars, regVars, httpVars, sendVars, queryVars, nameVars>>
extButName == <<syncVars, migVars, regVars, httpVars, sendVars, queryVars, mediaVars>>

whButDeliveries == <<cfgMaxRetries, deliveryChan, chanClosed, ctxDone, workerPc, workerTask,
                     retries, attemptsMade, emitPc, emitQueue, emitPayload, nextUUID,
                     emitted, dropped, producerPanicked, crashed, mainPc>>

vars == <<whVars, stVars, ghostVars, lidMap, jidVars, extVars>>

\* everything but the webhook manager's state
nonWhVars == <<stVars, ghostVars, lidMap, jidVars, extVars>>

-----------------------------------------------------------------------------
(* Bounds of the model *)

\* capacity of the delivery queue explored (the code sets 100)
ChannelBufferSize == 1
\* number of worker goroutines explored (WEBHOOK_WORKER_POOL_SIZE, default 3)
WorkerPoolSize == 1
\* number of EmitMessageEvent calls explored
MaxEvents == 1

Min(a, b) == IF a < b THEN a ELSE b
Max(a, b) == IF a > b THEN a ELSE b

-----------------------------------------------------------------------------
(* Webhook configuration: LoadConfig *)

\* retryBackoff := []time.Duration{0, 5s, 15s}, in seconds
RetryBackoff == <<0, 5, 15>>

\* values of WEBHOOK_MAX_RETRIES explored (GetEnvInt accepts any integer)
EnvMaxRetries == {0, 2, 4}

\* LoadConfig: MaxRetries is capped to len(retryBackoff); no lower clamp
LoadConfigMaxRetries(env) ==
    IF env > Len(RetryBackoff) THEN Len(RetryBackoff) ELSE env

\* webhook_registrations rows: id -> [active, event_types]
WebhookRows ==
    [w \in {"w1", "w2", "w3"} |->
        IF w = "w3" THEN [active |-> FALSE, event_types |-> {"message"}]
                    ELSE [active |-> TRUE, event_types |-> {"message"}]]

\* the order ListWebhooks returns rows in
WebhookOrder == <<"w1", "w2", "w3">>

\* store.ListWebhooks(activeOnly)
ListWebhooks(activeOnly) ==
    SelectSeq(WebhookOrder, LAMBDA w : (~activeOnly) \/ WebhookRows[w].active)

\* contains(slice, item)
contains(slice, item) == item \in slice

\* EmitMessageEvent: the webhooks the range loop enqueues a task for
Subscribed(webhooks) ==
    SelectSeq(webhooks, LAMBDA w : contains(WebhookRows[w].event_types, "message"))

PayloadIds == 1..MaxEvents
Workers == 1..WorkerPoolSize
NoTask == [webhook |-> "", payload |-> 0, attempt |-> 0]

-----------------------------------------------------------------------------
(* Webhook manager *)

WebhookInit ==
    /\ cfgMaxRetries \in {LoadConfigMaxRetries(e) : e \in EnvMaxRetries}
    /\ deliveryChan = <<>>
    /\ chanClosed = FALSE
    /\ ctxDone = FALSE
    /\ workerPc = [w \in Workers |-> "select"]
    /\ workerTask = [w \in Workers |-> NoTask]
    /\ retries = {}
    /\ deliveries = {}
    /\ attemptsMade = [k \in {"w1", "w2", "w3"} \X PayloadIds |-> 0]
    /\ emitPc = "idle"
    /\ emitQueue = <<>>
    /\ emitPayload = 0
    /\ nextUUID = 0
    /\ emitted = 0
    /\ dropped = {}
    /\ producerPanicked = FALSE
    /\ crashed = FALSE
    /\ mainPc = "running"

\* the process is alive and the protocol client still dispatches events
ProducerLive == ~crashed /\ mainPc # "done"

\* EmitMessageEvent, lines 131-136: list the webhooks, build one payload
EmitStart ==
    /\ ProducerLive
    /\ emitPc = "idle"
    /\ emitted < MaxEvents
    /\ emitted' = emitted + 1
    /\ \E listOk \in BOOLEAN :
        IF listOk /\ Subscribed(ListWebhooks(TRUE)) # <<>>
        THEN /\ nextUUID' = nextUUID + 1
             /\ emitPayload' = nextUUID + 1
             /\ emitQueue' = Subscribed(ListWebhooks(TRUE))
             /\ emitPc' = "send"
        ELSE UNCHANGED <<nextUUID, emitPayload, emitQueue, emitPc>>
    /\ UNCHANGED <<nonWhVars, cfgMaxRetries, deliveryChan, chanClosed, ctxDone, workerPc, workerTask,
                   retries, deliveries, attemptsMade, dropped, producerPanicked,
                   crashed, mainPc>>

\* the emitter's loop variable after one iteration
EmitAdvance ==
    /\ emitQueue' = Tail(emitQueue)
    /\ emitPc' = IF Tail(emitQueue) = <<>> THEN "idle" ELSE "send"

EmitTask == [webhook |-> Head(emitQueue), payload |-> emitPayload, attempt |-> 1]

\* a non-blocking send on the channel: "panic" | "sent" | "full"
TrySend(closed, len) ==
    IF closed THEN "panic"
    ELSE IF len < ChannelBufferSize THEN "sent"
    ELSE "full"

\* EmitMessageEvent, lines 145-157: select { case deliveryChan <- task: default: }
EmitSend ==
    /\ ProducerLive
    /\ emitPc = "send"
    /\ LET r == TrySend(chanClosed, Len(deliveryChan)) IN
       \/ /\ r = "sent"
          /\ deliveryChan' = Append(deliveryChan, EmitTask)
          /\ EmitAdvance
          /\ UNCHANGED <<dropped, producerPanicked>>
       \/ /\ r = "full"
          /\ dropped' = dropped \cup {EmitTask}
          /\ EmitAdvance
          /\ UNCHANGED <<deliveryChan, producerPanicked>>
       \/ /\ r = "panic"
          /\ producerPanicked' = TRUE
          /\ emitQueue' = <<>>
          /\ emitPc' = "idle"
          /\ UNCHANGED <<deliveryChan, dropped>>
    /\ UNCHANGED <<nonWhVars, cfgMaxRetries, chanClosed, ctxDone, workerPc, workerTask, retries,
                   deliveries, attemptsMade, emitPayload, nextUUID, emitted, crashed, mainPc>>

\* the retry test off by one: attempt <= MaxRetries
ShouldRetryInclusive(attempt) ==
    attempt <= cfgMaxRetries /\ attempt < Len(RetryBackoff)

\* worker, line 215: a retry is scheduled while attempts remain
ShouldRetry(attempt) ==
    attempt < cfgMaxRetries /\ attempt < Len(RetryBackoff)

\* worker, line 216: backoff := RetryBackoff[task.attempt] (0-based index)
BackoffFor(attempt) == RetryBackoff[attempt + 1]

\* worker, line 211: task := <-m.deliveryChan with a task buffered
WorkerRecv(w) ==
    /\ ~crashed
    /\ workerPc[w] = "select"
    /\ deliveryChan # <<>>
    /\ workerTask' = [workerTask EXCEPT ![w] = Head(deliveryChan)]
    /\ deliveryChan' = Tail(deliveryChan)
    /\ workerPc' = [workerPc EXCEPT ![w] = "deliver"]
    /\ UNCHANGED <<nonWhVars, cfgMaxRetries, chanClosed, ctxDone, retries, deliveries, attemptsMade,
                   emitPc, emitQueue, emitPayload, nextUUID, emitted, dropped,
                   producerPanicked, crashed, mainPc>>

\* worker, lines 211-212: a receive on the closed, drained channel yields nil and
\* task.webhook.ID dereferences it
WorkerRecvClosed(w) ==
    /\ ~crashed
    /\ workerPc[w] = "select"
    /\ chanClosed /\ deliveryChan = <<>>
    /\ crashed' = TRUE
    /\ UNCHANGED <<nonWhVars, cfgMaxRetries, deliveryChan, chanClosed, ctxDone, workerPc, workerTask,
                   retries, deliveries, attemptsMade, emitPc, emitQueue, emitPayload,
                   nextUUID, emitted, dropped, producerPanicked, mainPc>>

\* worker, lines 236-237: case <-m.ctx.Done(): return
WorkerExit(w) ==
    /\ ~crashed
    /\ workerPc[w] = "select"
    /\ ctxDone
    /\ workerPc' = [workerPc EXCEPT ![w] = "exited"]
    /\ UNCHANGED <<nonWhVars, cfgMaxRetries, deliveryChan, chanClosed, ctxDone, workerTask, retries,
                   deliveries, attemptsMade, emitPc, emitQueue, emitPayload, nextUUID,
                   emitted, dropped, producerPanicked, crashed, mainPc>>

\* the webhook_deliveries row deliverWebhook / recordFailure builds
DeliveryRow(task, ok) ==
    [webhook_id |-> task.webhook, payload_id |-> task.payload,
     attempt_number |-> task.attempt, success |-> ok]

\* store.RecordDelivery: the row is appended unless the insert fails
RecordDelivery(rows, row, dbOk) == IF dbOk THEN rows \cup {row} ELSE rows

\* worker, lines 213-235, with deliverWebhook: one POST, its audit row, and the
\* retry goroutine when the POST failed and attempts remain.  A failed audit
\* insert is only logged by deliverWebhook; the insert is explored succeeding.
WorkerDeliver(w) ==
    /\ ~crashed
    /\ workerPc[w] = "deliver"
    /\ LET task == workerTask[w] IN
       \E ok \in BOOLEAN :
        /\ attemptsMade' = [attemptsMade EXCEPT ![<<task.webhook, task.payload>>] = @ + 1]
        /\ deliveries' = RecordDelivery(deliveries, DeliveryRow(task, ok), TRUE)
        /\ retries' = IF ~ok /\ ShouldRetry(task.attempt)
                      THEN retries \cup {[task |-> [task EXCEPT !.attempt = @ + 1],
                                          delay |-> BackoffFor(task.attempt)]}
                      ELSE retries
    /\ workerPc' = [workerPc EXCEPT ![w] = "select"]
    /\ workerTask' = [workerTask EXCEPT ![w] = NoTask]
    /\ UNCHANGED <<nonWhVars, cfgMaxRetries, deliveryChan, chanClosed, ctxDone, emitPc, emitQueue,
                   emitPayload, nextUUID, emitted, dropped, producerPanicked, crashed, mainPc>>

\* retry goroutine, lines 222-226: the timer fires and the blocking send
\* m.deliveryChan <- t finds room
RetryEnqueue(r) ==
    /\ ~crashed
    /\ r \in retries
    /\ ~chanClosed /\ Len(deliveryChan) < ChannelBufferSize
    /\ deliveryChan' = Append(deliveryChan, r.task)
    /\ retries' = retries \ {r}
    /\ UNCHANGED <<nonWhVars, cfgMaxRetries, chanClosed, ctxDone, workerPc, workerTask, deliveries,
                   attemptsMade, emitPc, emitQueue, emitPayload, nextUUID, emitted,
                   dropped, producerPanicked, crashed, mainPc>>

\* retry goroutine, lines 222-225: the timer fires and the select takes the send
\* case on the closed channel, which panics in this goroutine
RetrySendClosed(r) ==
    /\ ~crashed
    /\ r \in retries
    /\ chanClosed
    /\ crashed' = TRUE
    /\ UNCHANGED <<nonWhVars, cfgMaxRetries, deliveryChan, chanClosed, ctxDone, workerPc, workerTask,
                   retries, deliveries, attemptsMade, emitPc, emitQueue, emitPayload,
                   nextUUID, emitted, dropped, producerPanicked, mainPc>>

\* retry goroutine, lines 227 and 230: case <-m.ctx.Done() in either select
RetryCancelled(r) ==
    /\ ~crashed
    /\ r \in retries
    /\ ctxDone
    /\ retries' = retries \ {r}
    /\ UNCHANGED <<nonWhVars, cfgMaxRetries, deliveryChan, chanClosed, ctxDone, workerPc, workerTask,
                   deliveries, attemptsMade, emitPc, emitQueue, emitPayload, nextUUID,
                   emitted, dropped, producerPanicked, crashed, mainPc>>

\* main, lines 333-347: the signal arrives and httpServer.Shutdown returns
MainShutdownHTTP ==
    /\ ~crashed
    /\ mainPc = "running"
    /\ mainPc' = "cancel"
    /\ UNCHANGED <<nonWhVars, cfgMaxRetries, deliveryChan, chanClosed, ctxDone, workerPc, workerTask,
                   retries, deliveries, attemptsMade, emitPc, emitQueue, emitPayload,
                   nextUUID, emitted, dropped, producerPanicked, crashed>>

\* Stop, line 109: m.cancel()
StopCancel ==
    /\ ~crashed
    /\ mainPc = "cancel"
    /\ ctxDone' = TRUE
    /\ mainPc' = "close"
    /\ UNCHANGED <<nonWhVars, cfgMaxRetries, deliveryChan, chanClosed, workerPc, workerTask, retries,
                   deliveries, attemptsMade, emitPc, emitQueue, emitPayload, nextUUID,
                   emitted, dropped, producerPanicked, crashed>>

\* Stop, line 112: close(m.deliveryChan)
StopClose ==
    /\ ~crashed
    /\ mainPc = "close"
    /\ chanClosed' = TRUE
    /\ mainPc' = "wait"
    /\ UNCHANGED <<nonWhVars, cfgMaxRetries, deliveryChan, ctxDone, workerPc, workerTask, retries,
                   deliveries, attemptsMade, emitPc, emitQueue, emitPayload, nextUUID,
                   emitted, dropped, producerPanicked, crashed>>

\* Stop, lines 115-126: wg.Wait() completes, or the 30 s timer fires first
StopWait ==
    /\ ~crashed
    /\ mainPc = "wait"
    /\ mainPc' = "disconnect"
    /\ UNCHANGED <<nonWhVars, cfgMaxRetries, deliveryChan, chanClosed, ctxDone, workerPc, workerTask,
                   retries, deliveries, attemptsMade, emitPc, emitQueue, emitPayload,
                   nextUUID, emitted, dropped, producerPanicked, crashed>>

\* main, line 354: waClient.Disconnect(); no event is dispatched afterwards
MainDisconnect ==
    /\ ~crashed
    /\ mainPc = "disconnect"
    /\ mainPc' = "done"
    /\ UNCHANGED <<nonWhVars, cfgMaxRetries, deliveryChan, chanClosed, ctxDone, workerPc, workerTask,
                   retries, deliveries, attemptsMade, emitPc, emitQueue, emitPayload,
                   nextUUID, emitted, dropped, producerPanicked, crashed>>

WebhookNext ==
    \/ EmitStart
    \/ EmitSend
    \/ \E w \in Workers : WorkerRecv(w)
    \/ \E w \in Workers : WorkerRecvClosed(w)
    \/ \E w \in Workers : WorkerExit(w)
    \/ \E w \in Workers : WorkerDeliver(w)
    \/ \E r \in retries : RetryEnqueue(r)
    \/ \E r \in retries : RetrySendClosed(r)
    \/ \E r \in retries : RetryCancelled(r)
    \/ MainShutdownHTTP
    \/ StopCancel
    \/ StopClose
    \/ StopWait
    \/ MainDisconnect

-----------------------------------------------------------------------------
(* JID canonicaliser: whatsapp/handlers.go normalizeJID, with the types.JID       *)
(* operations it calls.  A string is a sequence of tokens: "@", ".", ":" are the   *)
(* separator characters, every other token stands for a run of other characters.  *)

\* largest device / agent number explored
MaxDevice == 1

DefaultUserServer == "s.whatsapp.net"
HiddenUserServer == "lid"

MkJID(user, agent, device, server) ==
    [User |-> user, RawAgent |-> agent, Device |-> device, Server |-> server]

\* the zero value types.JID{}
EmptyJID == MkJID("", 0, 0, "")

\* a Go string field as tokens: the empty string has none
Str(field) == IF field = "" THEN <<>> ELSE <<field>>

\* strconv.Itoa / %d on the numbers explored
Itoa(n) == <<"0", "1", "2", "3", "4", "5", "6", "7", "8", "9">>[n + 1]

IsNumeral(tok) == \E n \in 0..9 : Itoa(n) = tok

\* strconv.Atoi on one token
Atoi(tok) == CHOOSE n \in 0..9 : Itoa(n) = tok

\* jid.IsEmpty(): len(jid.Server) == 0
IsEmpty(jid) == jid.Server = ""

\* jid.ToNonAD(): user and server only
ToNonAD(jid) == MkJID(jid.User, 0, 0, jid.Server)

\* jid.String()
String(jid) ==
    IF jid.RawAgent > 0
    THEN Str(jid.User) \o <<".", Itoa(jid.RawAgent), ":", Itoa(jid.Device), "@">> \o Str(jid.Server)
    ELSE IF jid.Device > 0
    THEN Str(jid.User) \o <<":", Itoa(jid.Device), "@">> \o Str(jid.Server)
    ELSE IF jid.User # ""
    THEN <<jid.User, "@">> \o Str(jid.Server)
    ELSE Str(jid.Server)

\* index of the first token sep in s, 0 when there is none
IndexOf(s, sep) ==
    IF \E i \in 1..Len(s) : s[i] = sep
    THEN CHOOSE i \in 1..Len(s) : s[i] = sep /\ \A k \in 1..(i - 1) : s[k] # sep
    ELSE 0

\* strings.Split(s, sep): the pieces between the separators
RECURSIVE Split(_, _)
Split(s, sep) ==
    LET i == IndexOf(s, sep) IN
    IF i = 0 THEN <<s>>
    ELSE <<SubSeq(s, 1, i - 1)>> \o Split(SubSeq(s, i + 1, Len(s)), sep)

\* a piece read back as one string field; only pieces of at most one token occur
\* in the strings String() produces
Field(piece) == IF piece = <<>> THEN "" ELSE piece[1]

OneNumeral(piece) == Len(piece) = 1 /\ IsNumeral(piece[1])

\* types.ParseJID(s): [ok, jid]
ParseJID(s) ==
    LET parts == Split(s, "@") IN
    IF Len(parts) = 1 THEN [ok |-> TRUE, jid |-> MkJID("", 0, 0, Field(parts[1]))]
    ELSE
      LET user == parts[1]
          server == Field(parts[2])
          bad == [ok |-> FALSE, jid |-> MkJID(Field(user), 0, 0, server)]
      IN
      IF IndexOf(user, ".") # 0
      THEN LET up == Split(user, ".") IN
           IF Len(up) # 2 THEN bad
           ELSE LET ad == Split(up[2], ":") IN
                IF Len(ad) > 2 \/ ~OneNumeral(ad[1]) THEN bad
                ELSE IF Len(ad) = 2
                THEN IF ~OneNumeral(ad[2]) THEN bad
                     ELSE [ok |-> TRUE,
                           jid |-> MkJID(Field(up[1]), Atoi(ad[1][1]), Atoi(ad[2][1]), server)]
                ELSE [ok |-> TRUE, jid |-> MkJID(Field(up[1]), Atoi(ad[1][1]), 0, server)]
      ELSE IF IndexOf(user, ":") # 0
      THEN LET up == Split(user, ":") IN
           IF Len(up) # 2 \/ ~OneNumeral(up[2]) THEN bad
           ELSE [ok |-> TRUE, jid |-> MkJID(Field(up[1]), 0, Atoi(up[2][1]), server)]
      ELSE [ok |-> TRUE, jid |-> MkJID(Field(user), 0, 0, server)]

\* c.wa.Store.LIDs.GetPNForLID(ctx, jid): the phone-number JID the mapping holds
\* for the user of an @lid JID, with the device carried over; the zero JID when
\* the mapping has no entry.  lm[user] = "" stands for no entry.
GetPNForLID(lm, jid) ==
    IF jid.Server = HiddenUserServer /\ jid.User \in DOMAIN lm /\ lm[jid.User] # ""
    THEN MkJID(lm[jid.User], 0, jid.Device, DefaultUserServer)
    ELSE EmptyJID

\* the lookup left out: an @lid JID stays as it is
ResolveLIDNever(lm, jid) == jid

\* normalizeJID, lines 55-63: an @lid JID is replaced by its phone-number JID
ResolveLID(lm, jid) ==
    IF jid.Server = HiddenUserServer /\ ~IsEmpty(GetPNForLID(lm, jid))
    THEN GetPNForLID(lm, jid)
    ELSE jid

\* the group/broadcast/newsletter case left out: every JID loses its device suffix
normalizeJIDStripAll(lm, jid) ==
    IF IsEmpty(jid) THEN <<>>
    ELSE String(ToNonAD(ResolveLID(lm, jid)))

\* normalizeJID
normalizeJID(lm, jid) ==
    IF IsEmpty(jid) THEN <<>>
    ELSE IF jid.Server \in {"g.us", "broadcast", "newsletter"} THEN String(jid)
    ELSE String(ToNonAD(ResolveLID(lm, jid)))

-----------------------------------------------------------------------------
(* Message store: package storage.  chats and messages are the tables, as       *)
(* functions from the primary key to the row.                                    *)

\* timestamps explored: 1..MaxTime (Unix seconds)
MaxTime == 2
\* longest history-sync payload explored, in messages
MaxBatch == 2

Times == 1..MaxTime

\* INSERT INTO chats ... VALUES (...): the row of a new chat
ChatInsertRow(chat) ==
    [push_name |-> chat.PushName, contact_name |-> chat.ContactName,
     last_message_time |-> chat.LastMessageTime, unread_count |-> chat.UnreadCount,
     is_group |-> chat.IsGroup]

\* col = excluded.col: the plain overwrite
CoalesceOverwrite(excluded, stored) == excluded

\* COALESCE(NULLIF(excluded.col, ''), chats.col)
CoalesceNullif(excluded, stored) == IF excluded # "" THEN excluded ELSE stored

\* ON CONFLICT(jid) DO UPDATE SET ...: the row after the upsert of an existing chat
ChatUpdateRow(old, chat) ==
    [push_name |-> CoalesceNullif(chat.PushName, old.push_name),
     contact_name |-> CoalesceNullif(chat.ContactName, old.contact_name),
     last_message_time |-> chat.LastMessageTime,
     unread_count |-> chat.UnreadCount,
     is_group |-> chat.IsGroup]

\* MessageStore.SaveChat: [ok, chats]; dbOk is whether db.Exec succeeds
SaveChat(table, chat, dbOk) ==
    IF chat.JID = <<>> THEN [ok |-> FALSE, chats |-> table]
    ELSE IF ~dbOk THEN [ok |-> FALSE, chats |-> table]
    ELSE IF chat.JID \in DOMAIN table
    THEN [ok |-> TRUE, chats |-> [table EXCEPT ![chat.JID] = ChatUpdateRow(@, chat)]]
    ELSE [ok |-> TRUE, chats |-> table @@ (chat.JID :> ChatInsertRow(chat))]

\* the messages row of a storage.Message
MessageRow(msg) ==
    [chat_jid |-> msg.ChatJID, sender_jid |-> msg.SenderJID, timestamp |-> msg.Timestamp,
     is_from_me |-> msg.IsFromMe]

\* INSERT OR REPLACE INTO messages under FOREIGN KEY (chat_jid) REFERENCES chats(jid):
\* [ok, messages]
InsertOrReplaceMessage(msgTable, chatTable, msg) ==
    IF msg.ChatJID \notin DOMAIN chatTable THEN [ok |-> FALSE, messages |-> msgTable]
    ELSE IF msg.ID \in DOMAIN msgTable
    THEN [ok |-> TRUE, messages |-> [msgTable EXCEPT ![msg.ID] = MessageRow(msg)]]
    ELSE [ok |-> TRUE, messages |-> msgTable @@ (msg.ID :> MessageRow(msg))]

\* MessageStore.SaveMessage: [ok, messages]
SaveMessage(msgTable, chatTable, msg, dbOk) ==
    IF ~dbOk THEN [ok |-> FALSE, messages |-> msgTable]
    ELSE InsertOrReplaceMessage(msgTable, chatTable, msg)

\* SaveBulk, lines 85-99: the statements of the loop inside the transaction, from
\* message i on; failAt is the index of a statement whose Exec fails for a reason
\* of the database (0: none).  [ok, messages] is the transaction's view.
RECURSIVE BulkExec(_, _, _, _, _)
BulkExec(tx, chatTable, batch, i, failAt) ==
    IF i > Len(batch) THEN [ok |-> TRUE, messages |-> tx]
    ELSE IF i = failAt THEN [ok |-> FALSE, messages |-> tx]
    ELSE LET r == InsertOrReplaceMessage(tx, chatTable, batch[i]) IN
         IF ~r.ok THEN r
         ELSE BulkExec(r.messages, chatTable, batch, i + 1, failAt)

\* the statements run on the connection instead of the transaction: nothing is
\* rolled back
BulkNoRollback(before, r, commitOk) ==
    [ok |-> r.ok /\ commitOk, messages |-> r.messages]

\* SaveBulk, lines 72 and 101: commit when every statement succeeded (failAt =
\* Len(batch) + 1 is a failing Commit), otherwise the deferred Rollback
BulkOutcome(before, r, commitOk) ==
    IF r.ok /\ commitOk THEN [ok |-> TRUE, messages |-> r.messages]
    ELSE [ok |-> FALSE, messages |-> before]

\* MessageStore.SaveBulk: [ok, messages]
SaveBulk(msgTable, chatTable, batch, failAt) ==
    BulkOutcome(msgTable, BulkExec(msgTable, chatTable, batch, 1, failAt),
                failAt # Len(batch) + 1)

-----------------------------------------------------------------------------
(* Ingestion handlers: whatsapp/handlers.go *)

\* the chat JIDs events carry: the zero JID, a user known by its @lid form with a
\* companion device, and a group
EventChats ==
    {EmptyJID, MkJID("l1", 0, 1, HiddenUserServer), MkJID("g1", 0, 0, "g.us")}
MsgIds == {"m1", "m2"}
PushNames == {"", "p1"}
\* answers of the contact store and of GetGroupInfo ("" : not found / error)
LibraryNames == {"", "n1"}
\* the mapping the handlers run under: l1 is the user u1
KnownLIDs == [u \in {"l1"} |-> "u1"]

NoMsg == [ID |-> "", ChatJID |-> <<>>, SenderJID |-> <<>>, Timestamp |-> 0, IsFromMe |-> FALSE]
EmptyTable == <<>>

\* the sender of a message in a chat: the peer of a direct chat, a participant
\* (with its device suffix) of a group
SenderOf(chat) ==
    IF chat.Server = "g.us" THEN MkJID("u1", 0, 1, DefaultUserServer) ELSE chat

\* getGroupInfoCached: the stored push_name when there is one, else GetGroupInfo
getGroupInfoCached(chatTable, lm, groupJID, apiName) ==
    LET key == normalizeJID(lm, groupJID) IN
    IF key \in DOMAIN chatTable /\ chatTable[key].push_name # ""
    THEN chatTable[key].push_name
    ELSE apiName

\* getChatInfo: <<pushName, contactName>>; env holds the answers of the
\* protocol library ([group |-> name, contact |-> name])
getChatInfo(chatTable, lm, chatJID, isGroup, messagePushName, env) ==
    IF isGroup
    THEN <<getGroupInfoCached(chatTable, lm, chatJID, env.group), "">>
    ELSE <<messagePushName, env.contact>>

\* processMessageData, lines 177-183 / handleHistorySync, lines 584-590
MkChat(jid, info, ts, isGroup) ==
    [JID |-> jid, PushName |-> info[1], ContactName |-> info[2],
     LastMessageTime |-> ts, UnreadCount |-> 0, IsGroup |-> isGroup]

\* the SaveChat error logged but not returned on
LiveIgnoreSaveChatError(ok) == "saveMessage"

\* processMessageData, lines 185-188: where the handler goes after SaveChat
LiveAfterSaveChat(ok) == IF ok THEN "saveMessage" ELSE "idle"

\* handleMessage + processMessageData up to SaveChat (lines 168-188).  Polls and
\* sender-key distribution messages return before this and change nothing.
LiveSaveChat ==
    /\ livePc = "idle"
    /\ \E chat \in EventChats, id \in MsgIds, ts \in Times, push \in PushNames,
          name \in LibraryNames, dbOk \in BOOLEAN :
        LET isGroup == chat.Server = "g.us"
            chatJID == normalizeJID(lidMap, chat)
            senderJID == normalizeJID(lidMap, SenderOf(chat))
            info == getChatInfo(chats, lidMap, chat, isGroup, push,
                                [group |-> name, contact |-> name])
            r == SaveChat(chats, MkChat(chatJID, info, ts, isGroup), dbOk)
        IN /\ chats' = r.chats
           /\ livePc' = LiveAfterSaveChat(r.ok)
           /\ liveMsg' = IF LiveAfterSaveChat(r.ok) = "idle" THEN NoMsg
                          ELSE [ID |-> id, ChatJID |-> chatJID, SenderJID |-> senderJID,
                                Timestamp |-> ts, IsFromMe |-> FALSE]
    /\ UNCHANGED <<whVars, extVars, ghostVars, lidMap, jidVars, messages, hsPc, hsPending, hsMsgs,
                   hsBulkCalls, hsBulkOk>>

\* processMessageData, lines 190-205: SaveMessage, then back to the event loop
LiveSaveMessage ==
    /\ livePc = "saveMessage"
    /\ \E dbOk \in BOOLEAN :
        messages' = SaveMessage(messages, chats, liveMsg, dbOk).messages
    /\ livePc' = "idle"
    /\ liveMsg' = NoMsg
    /\ UNCHANGED <<whVars, extVars, ghostVars, lidMap, jidVars, chats, hsPc, hsPending, hsMsgs,
                   hsBulkCalls, hsBulkOk>>

\* handleGroupInfo: a group rename is stored with IsGroup = true
HandleGroupInfo ==
    /\ \E name \in LibraryNames, ts \in Times, dbOk \in BOOLEAN :
        LET jid == normalizeJID(lidMap, MkJID("g1", 0, 0, "g.us")) IN
        chats' = SaveChat(chats, MkChat(jid, <<name, "">>, ts, TRUE), dbOk).chats
    /\ UNCHANGED <<whVars, extVars, ghostVars, lidMap, jidVars, messages, livePc, liveMsg, hsPc,
                   hsPending, hsMsgs, hsBulkCalls, hsBulkOk>>

\* one message of a HistorySync payload: the conversation id (a string) and what
\* parseHistoryMessage extracts
HistoryEntries ==
    [conv : {String(j) : j \in EventChats}, id : MsgIds, ts : Times, push : {""}]

RECURSIVE SeqsUpTo(_, _)
SeqsUpTo(S, n) ==
    IF n = 0 THEN {<<>>}
    ELSE LET shorter == SeqsUpTo(S, n - 1) IN
         shorter \cup {Append(q, x) : q \in shorter, x \in S}

HistoryPayloads == SeqsUpTo(HistoryEntries, MaxBatch)

\* handleHistorySync, lines 574-592: track the chat of one message
TrackChat(chatMap, chat) ==
    IF chat.JID = <<>> THEN chatMap
    ELSE IF chat.JID \in DOMAIN chatMap
    THEN IF chat.LastMessageTime > chatMap[chat.JID].LastMessageTime
         THEN [chatMap EXCEPT ![chat.JID].LastMessageTime = chat.LastMessageTime]
         ELSE chatMap
    ELSE chatMap @@ (chat.JID :> chat)

\* handleHistorySync, lines 524-605: the loop that fills chatMap and allMessages
RECURSIVE HSBuild(_, _, _, _, _, _)
HSBuild(chatTable, lm, env, payload, chatMap, all) ==
    IF payload = <<>> THEN [chatMap |-> chatMap, all |-> all]
    ELSE LET e == Head(payload)
             p == ParseJID(e.conv)
         IN
         IF ~p.ok THEN HSBuild(chatTable, lm, env, Tail(payload), chatMap, all)
         ELSE LET isGroup == p.jid.Server = "g.us"
                  chatJID == normalizeJID(lm, p.jid)
                  senderJID == normalizeJID(lm, SenderOf(p.jid))
                  info == getChatInfo(chatTable, lm, p.jid, isGroup, e.push, env)
                  msg == [ID |-> e.id, ChatJID |-> chatJID, SenderJID |-> senderJID,
                          Timestamp |-> e.ts, IsFromMe |-> FALSE]
              IN HSBuild(chatTable, lm, env, Tail(payload),
                         TrackChat(chatMap, MkChat(chatJID, info, e.ts, isGroup)),
                         Append(all, msg))

\* the two blocks swapped: SaveBulk first, the SaveChat loop after it
HSBulkBeforeChats(phase, pending, msgs) ==
    IF phase = "start" /\ msgs # <<>> THEN "bulk"
    ELSE IF DOMAIN pending # {} THEN "chats"
    ELSE "done"

\* handleHistorySync, lines 607-627: what the handler does next
HSNextPc(phase, pending, msgs) ==
    IF phase = "bulk" THEN "done"
    ELSE IF DOMAIN pending # {} THEN "chats"
    ELSE IF msgs # <<>> THEN "bulk"
    ELSE "done"

\* handleHistorySync, lines 481-605: a HistorySync event arrives and is parsed
HSStart ==
    /\ hsPc = "idle"
    /\ \E payload \in HistoryPayloads, name \in LibraryNames :
        LET b == HSBuild(chats, lidMap, [group |-> name, contact |-> name],
                         payload, EmptyTable, <<>>)
        IN /\ hsPending' = b.chatMap
           /\ hsMsgs' = b.all
           /\ hsPc' = HSNextPc("start", b.chatMap, b.all)
    /\ hsBulkCalls' = 0
    /\ hsBulkOk' = TRUE
    /\ UNCHANGED <<whVars, extVars, ghostVars, lidMap, jidVars, chats, messages, livePc, liveMsg>>

\* handleHistorySync, lines 610-614: SaveChat for one chat of chatMap (a Go map is
\* ranged over in any order); a failure is logged and the loop goes on
HSSaveChat ==
    /\ hsPc = "chats"
    /\ \E jid \in DOMAIN hsPending, dbOk \in BOOLEAN :
        LET rest == [k \in DOMAIN hsPending \ {jid} |-> hsPending[k]] IN
        /\ chats' = SaveChat(chats, hsPending[jid], dbOk).chats
        /\ hsPending' = rest
        /\ hsPc' = HSNextPc("chats", rest, hsMsgs)
    /\ UNCHANGED <<whVars, extVars, ghostVars, lidMap, jidVars, messages, livePc, liveMsg, hsMsgs,
                   hsBulkCalls, hsBulkOk>>

\* handleHistorySync, lines 617-627: SaveBulk(allMessages)
HSSaveBulk ==
    /\ hsPc = "bulk"
    /\ \E failAt \in 0..(Len(hsMsgs) + 1) :
        LET r == SaveBulk(messages, chats, hsMsgs, failAt) IN
        /\ messages' = r.messages
        /\ hsBulkOk' = r.ok
    /\ hsBulkCalls' = hsBulkCalls + 1
    /\ hsPc' = HSNextPc("bulk", hsPending, hsMsgs)
    /\ UNCHANGED <<whVars, extVars, ghostVars, lidMap, jidVars, chats, livePc, liveMsg, hsPending,
                   hsMsgs>>

\* live events: messages and group renames
LiveNext ==
    \/ LiveSaveChat
    \/ LiveSaveMessage
    \/ HandleGroupInfo

\* the handling of one HistorySync event
HistoryNext ==
    \/ HSStart
    \/ HSSaveChat
    \/ HSSaveBulk

-----------------------------------------------------------------------------
(* SaveChat called directly, with any argument *)

\* the storage.Chat values passed to SaveChat
ChatArgs ==
    [JID : {<<>>, <<"u1", "@", DefaultUserServer>>},
     PushName : {"", "p1", "p2"}, ContactName : {"", "c1", "c2"},
     LastMessageTime : Times, UnreadCount : {0}, IsGroup : BOOLEAN]

Put(f, k, v) == IF k \in DOMAIN f THEN [f EXCEPT ![k] = v] ELSE f @@ (k :> v)
Get(f, k, default) == IF k \in DOMAIN f THEN f[k] ELSE default

\* one SaveChat call; the history of the successful calls is kept per jid
SaveChatCall ==
    /\ \E chat \in ChatArgs, dbOk \in BOOLEAN :
        LET r == SaveChat(chats, chat, dbOk)
            j == chat.JID
        IN /\ chats' = r.chats
           /\ IF r.ok
              THEN /\ gPush' = Put(gPush, j, IF chat.PushName # "" THEN chat.PushName
                                             ELSE Get(gPush, j, ""))
                   /\ gContact' = Put(gContact, j, IF chat.ContactName # "" THEN chat.ContactName
                                                   ELSE Get(gContact, j, ""))
                   /\ gMaxTime' = Put(gMaxTime, j, Max(chat.LastMessageTime,
                                                       Get(gMaxTime, j, chat.LastMessageTime)))
                   /\ gFirstGroup' = Put(gFirstGroup, j, Get(gFirstGroup, j, chat.IsGroup))
                   /\ gLast' = Put(gLast, j, [PushName |-> chat.PushName,
                                              ContactName |-> chat.ContactName])
              ELSE UNCHANGED ghostVars
    /\ UNCHANGED <<whVars, extVars, lidMap, jidVars, messages, livePc, liveMsg, hsPc, hsPending,
                   hsMsgs, hsBulkCalls, hsBulkOk>>

ChatNext == SaveChatCall

-----------------------------------------------------------------------------
(* normalizeJID applied to its own output *)

JIDInputs ==
    [User : {"", "u1", "l1"}, RawAgent : 0..MaxDevice, Device : 0..MaxDevice,
     Server : {"", DefaultUserServer, HiddenUserServer, "g.us", "broadcast", "newsletter"}]

\* the LID -> phone-number mappings explored ("" : no entry)
LIDMaps == [{"l1"} -> {"", "u1", "u2"}]

ParseError == <<"parse error">>

\* returns the canonical form of a canonical string: ParseJID, then normalizeJID
Renormalize(lm, str) ==
    IF ParseJID(str).ok THEN normalizeJID(lm, ParseJID(str).jid) ELSE ParseError

JidNormalize ==
    /\ jidPc = "in"
    /\ jidOut' = normalizeJID(lidMap, jidIn)
    /\ jidPc' = "once"
    /\ UNCHANGED <<whVars, extVars, stVars, ghostVars, lidMap, jidIn, jidOut2>>

JidRenormalize ==
    /\ jidPc = "once"
    /\ jidOut2' = Renormalize(lidMap, jidOut)
    /\ jidPc' = "twice"
    /\ UNCHANGED <<whVars, extVars, stVars, ghostVars, lidMap, jidIn, jidOut>>

JidNext ==
    \/ JidNormalize
    \/ JidRenormalize

-----------------------------------------------------------------------------
(* On-demand history sync: whatsapp/client.go RequestHistorySync and the       *)
(* signalling at the end of handleHistorySync                                   *)

\* concurrent RequestHistorySync calls explored
MaxRequests == 2
\* largest count argument explored (the tool handler passes 1..200)
MaxCount == 1
\* HistorySync events explored
MaxSyncEvents == 1

Reqs == 1..MaxRequests

\* the chats requests and ON_DEMAND events are about: the group g1 and the user
\* u1, named by its @lid form
SyncConvs == {MkJID("g1", 0, 0, "g.us"), MkJID("l1", 0, 0, HiddenUserServer)}

NoArgs == [jid |-> <<>>, count |-> 0, wait |-> FALSE, anchor |-> 0]
NoResult == [kind |-> "", msgs |-> <<>>]
NoSyncEvent == [ids |-> {}, signalled |-> {}, answers |-> 0]

Drop(f, k) == [x \in DOMAIN f \ {k} |-> f[x]]

\* the ids of the stored messages of a chat
ChatMessages(msgTable, jid) == {id \in DOMAIN msgTable : msgTable[id].chat_jid = jid}

\* store.GetOldestMessage(jid): [found, Timestamp] of the oldest stored message of
\* the chat, found = FALSE when the chat has none
GetOldestMessage(msgTable, jid) ==
    LET ids == ChatMessages(msgTable, jid) IN
    IF ids = {} THEN [found |-> FALSE, Timestamp |-> 0]
    ELSE [found |-> TRUE,
          Timestamp |-> msgTable[CHOOSE id \in ids :
                            \A o \in ids : msgTable[id].timestamp <= msgTable[o].timestamp].timestamp]

\* the result row of a stored message
ResultRow(msgTable, id) ==
    [ID |-> id, chat_jid |-> msgTable[id].chat_jid, timestamp |-> msgTable[id].timestamp]

\* comparison excluding the anchor itself
OlderThan(a, b) == a < b

\* store.GetChatMessagesOlderThan(jid, ts, limit): the possible answers; the
\* messages of the chat with timestamp < ts, newest first, at most limit of them
\* (rows of equal timestamp come in any order)
GetChatMessagesOlderThan(msgTable, jid, ts, limit) ==
    LET older == {id \in ChatMessages(msgTable, jid) : OlderThan(msgTable[id].timestamp, ts)}
        n == Min(limit, Cardinality(older))
    IN {[i \in 1..n |-> ResultRow(msgTable, q[i])] :
            q \in {x \in [1..n -> older] :
                     /\ \A i, k \in 1..n : i < k =>
                            /\ x[i] # x[k]
                            /\ msgTable[x[i]].timestamp >= msgTable[x[k]].timestamp
                     /\ \A o \in older : (\A i \in 1..n : x[i] # o) =>
                            \A i \in 1..n : msgTable[o].timestamp <= msgTable[x[i]].timestamp}}

\* the anchor lookup's result not tested: the call goes on without an anchor
ReqFirstStepNoAnchorTest(found, wait, sendOk) ==
    IF wait
    THEN IF sendOk
         THEN [pc |-> "waiting", kind |-> "", registers |-> TRUE, sends |-> TRUE]
         ELSE [pc |-> "returned", kind |-> "sendError", registers |-> FALSE, sends |-> FALSE]
    ELSE IF sendOk
         THEN [pc |-> "returned", kind |-> "empty", registers |-> FALSE, sends |-> TRUE]
         ELSE [pc |-> "returned", kind |-> "sendError", registers |-> FALSE, sends |-> FALSE]

\* RequestHistorySync, lines 213-283: how far the call gets before it returns or
\* blocks on its channel
ReqFirstStep(found, wait, sendOk) ==
    IF ~found THEN [pc |-> "returned", kind |-> "noAnchor", registers |-> FALSE, sends |-> FALSE]
    ELSE IF wait
    THEN IF sendOk
         THEN [pc |-> "waiting", kind |-> "", registers |-> TRUE, sends |-> TRUE]
         ELSE [pc |-> "returned", kind |-> "sendError", registers |-> FALSE, sends |-> FALSE]
    ELSE IF sendOk
         THEN [pc |-> "returned", kind |-> "empty", registers |-> FALSE, sends |-> TRUE]
         ELSE [pc |-> "returned", kind |-> "sendError", registers |-> FALSE, sends |-> FALSE]

\* RequestHistorySync, lines 204-253 and 273-282: parse and canonicalise the JID,
\* look up the anchor; in wait mode register a fresh channel under the canonical
\* jid and send the request (a failed send deletes the registration under the
\* jid), otherwise send and return.  Calls are numbered in the order they start.
ReqStart(r) ==
    /\ reqPc[r] = "idle"
    /\ \A o \in Reqs : o < r => reqPc[o] # "idle"
    /\ \E c \in SyncConvs, count \in 1..MaxCount, wait \in BOOLEAN, sendOk \in BOOLEAN :
        LET jid == normalizeJID(lidMap, ParseJID(String(c)).jid)
            oldest == GetOldestMessage(messages, jid)
            step == ReqFirstStep(oldest.found, wait, sendOk)
        IN /\ reqPc' = [reqPc EXCEPT ![r] = step.pc]
           /\ reqArgs' = [reqArgs EXCEPT ![r] =
                            IF step.pc = "returned"
                            THEN [NoArgs EXCEPT !.jid = jid, !.wait = wait]
                            ELSE [jid |-> jid, count |-> count, wait |-> wait,
                                  anchor |-> oldest.Timestamp]]
           /\ reqResult' = [reqResult EXCEPT ![r] = [kind |-> step.kind, msgs |-> <<>>]]
           /\ historySyncChans' =
                IF step.registers THEN Put(historySyncChans, jid, r)
                ELSE IF oldest.found /\ wait THEN Drop(historySyncChans, jid)
                ELSE historySyncChans
           /\ sentRequests' = IF step.sends THEN sentRequests + 1 ELSE sentRequests
    /\ UNCHANGED <<whVars, extButSync, stVars, ghostVars, lidMap, jidVars, syncChan, reqHandled,
                   hsEvents, hsLast>>

\* RequestHistorySync, lines 255-272: the signal is received and the messages
\* older than the anchor are read back
ReqSignalled(r) ==
    /\ reqPc[r] = "waiting"
    /\ syncChan[r]
    /\ \E res \in GetChatMessagesOlderThan(messages, reqArgs[r].jid, reqArgs[r].anchor,
                                           reqArgs[r].count) :
        reqResult' = [reqResult EXCEPT ![r] = [kind |-> "messages", msgs |-> res]]
    /\ syncChan' = [syncChan EXCEPT ![r] = FALSE]
    /\ reqPc' = [reqPc EXCEPT ![r] = "returned"]
    /\ UNCHANGED <<whVars, extButSync, stVars, ghostVars, lidMap, jidVars, reqArgs, historySyncChans,
                   reqHandled, sentRequests, hsEvents, hsLast>>

\* the timeout branch returning without the delete
KeepOnTimeout(chans, jid) == chans

\* RequestHistorySync, lines 259-261: delete(c.historySyncChans, normalizedJID)
DeleteOnTimeout(chans, jid) == Drop(chans, jid)

\* RequestHistorySync, lines 257-263: 30 s pass without a signal (a signal that
\* arrives before the deadline wakes the call first); the registration under the
\* jid is deleted
ReqTimeout(r) ==
    /\ reqPc[r] = "waiting"
    /\ ~syncChan[r]
    /\ historySyncChans' = DeleteOnTimeout(historySyncChans, reqArgs[r].jid)
    /\ reqResult' = [reqResult EXCEPT ![r] = [kind |-> "timeout", msgs |-> <<>>]]
    /\ reqPc' = [reqPc EXCEPT ![r] = "returned"]
    /\ UNCHANGED <<whVars, extButSync, stVars, ghostVars, lidMap, jidVars, reqArgs, syncChan, reqHandled,
                   sentRequests, hsEvents, hsLast>>

\* the messages an event can carry for one conversation: none, one older than
\* the stored one, two older ones (one of them replacing the stored one), one that
\* is not older
PayloadsOf(c) ==
    LET e(id, ts) == [conv |-> String(c), id |-> id, ts |-> ts, push |-> ""] IN
    {<<>>, <<e("m2", 1)>>, <<e("m1", 1), e("m2", 1)>>, <<e("m2", MaxTime)>>}

\* handleHistorySync, lines 608-615: SaveChat for every chat of chatMap; okSet
\* holds the chats whose upsert succeeds
RECURSIVE SaveChats(_, _, _)
SaveChats(table, pending, okSet) ==
    IF DOMAIN pending = {} THEN table
    ELSE LET j == CHOOSE k \in DOMAIN pending : TRUE IN
         SaveChats(SaveChat(table, pending[j], j \in okSet).chats, Drop(pending, j), okSet)

\* the calls whose request for one of these chats went out to the phone: the
\* batch of an ON_DEMAND event answers one of them (0: an event no call asked
\* for)
SentFor(convs) ==
    {q \in Reqs : /\ reqArgs[q].jid \in convs
                  /\ \/ reqPc[q] = "waiting"
                     \/ reqPc[q] = "returned" /\ reqResult[q].kind \in {"empty", "timeout", "messages"}}

\* a handler that logs the SaveBulk error and goes on to the signalling block
SignalsDespiteError(onDemand, bulkOk) == onDemand

\* whether handleHistorySync reaches its signalling block: the event is ON_DEMAND
\* and the handler did not return on a SaveBulk error (lines 620-623, 638)
Signals(onDemand, bulkOk) == onDemand /\ bulkOk

\* handleHistorySync as a whole, for an event about one conversation, ON_DEMAND
\* or not: the chats are saved, then the messages in one SaveBulk; lines 638-657:
\* every registered channel of a conversation of the event gets a non-blocking
\* signal and its registration is deleted
HandleHistorySync ==
    /\ hsEvents < MaxSyncEvents
    /\ hsEvents' = hsEvents + 1
    /\ \E c \in SyncConvs, onDemand \in BOOLEAN :
       \E payload \in PayloadsOf(c),
          convs \in {{normalizeJID(lidMap, ParseJID(String(c)).jid)}} :
       \E b \in {HSBuild(chats, lidMap, [group |-> "", contact |-> ""], payload,
                         EmptyTable, <<>>)} :
       \E okSet \in SUBSET DOMAIN b.chatMap, failAt \in 0..(Len(b.all) + 1) :
       \E saved \in {SaveChats(chats, b.chatMap, okSet)} :
       \E r \in {IF b.all # <<>> THEN SaveBulk(messages, saved, b.all, failAt)
                 ELSE [ok |-> TRUE, messages |-> messages]} :
       \E hit \in {IF Signals(onDemand, r.ok)
                   THEN convs \cap DOMAIN historySyncChans ELSE {}} :
       \E answers \in IF onDemand /\ SentFor(convs) # {} THEN SentFor(convs) ELSE {0} :
            /\ chats' = saved
            /\ messages' = r.messages
            /\ syncChan' = [q \in Reqs |->
                              syncChan[q] \/ \E j \in hit : historySyncChans[j] = q]
            /\ historySyncChans' =
                 [j \in DOMAIN historySyncChans \ hit |-> historySyncChans[j]]
            /\ hsLast' = [ids |-> {b.all[i].ID : i \in DOMAIN b.all},
                          signalled |-> {historySyncChans[j] : j \in hit},
                          answers |-> answers]
            /\ reqHandled' = [q \in Reqs |->
                                \/ reqHandled[q]
                                \/ /\ onDemand /\ r.ok
                                   /\ reqPc[q] = "waiting"
                                   /\ reqArgs[q].jid \in convs]
    /\ UNCHANGED <<whVars, extButSync, ghostVars, lidMap, jidVars, livePc, liveMsg, hsPc, hsPending,
                   hsMsgs, hsBulkCalls, hsBulkOk, reqPc, reqArgs, reqResult, sentRequests>>

SyncNext ==
    \/ \E r \in Reqs : ReqStart(r)
    \/ \E r \in Reqs : ReqSignalled(r)
    \/ \E r \in Reqs : ReqTimeout(r)
    \/ HandleHistorySync

-----------------------------------------------------------------------------
(* The PushName cache: processMessageData and handleHistorySync *)

MaxNameEvents == 2

\* getSenderPushName: nothing for own messages; the push name of the message,
\* else for a group the name the contact store has for the sender
getSenderPushName(messagePushName, isGroup, isFromMe, contactName) ==
    IF isFromMe THEN ""
    ELSE IF messagePushName # "" THEN messagePushName
    ELSE IF isGroup THEN contactName
    ELSE ""

\* the key both handlers build for the sender: data.SenderJID.String()
PushNameKey(sender) == String(sender)

\* SavePushNames: the upsert of every entry in one transaction
SavePushNames(table, pushNames, dbOk) ==
    IF dbOk THEN pushNames @@ table ELSE table

\* processMessageData for one live message: SaveChat, SaveMessage, then the
\* push name of the sender
processMessageData ==
    /\ nameEvents < MaxNameEvents
    /\ nameEvents' = nameEvents + 1
    /\ \E chat \in EventChats, id \in MsgIds, ts \in Times, push \in PushNames,
          name \in LibraryNames, isFromMe, chatOk, msgOk, namesOk \in BOOLEAN :
        LET isGroup == chat.Server = "g.us"
            chatJID == normalizeJID(lidMap, chat)
            sender == SenderOf(chat)
            info == getChatInfo(chats, lidMap, chat, isGroup, push,
                                [group |-> name, contact |-> name])
            c == SaveChat(chats, MkChat(chatJID, info, ts, isGroup), chatOk)
            m == IF LiveAfterSaveChat(c.ok) = "idle"
                 THEN [ok |-> FALSE, messages |-> messages]
                 ELSE SaveMessage(messages, c.chats,
                                  [ID |-> id, ChatJID |-> chatJID,
                                   SenderJID |-> normalizeJID(lidMap, sender),
                                   Timestamp |-> ts, IsFromMe |-> isFromMe], msgOk)
            senderPushName == getSenderPushName(push, isGroup, isFromMe, name)
        IN /\ chats' = c.chats
           /\ messages' = m.messages
           /\ push_names' = IF m.ok /\ senderPushName # ""
                            THEN SavePushNames(push_names,
                                               PushNameKey(sender) :> senderPushName, namesOk)
                            ELSE push_names
    /\ UNCHANGED <<whVars, ghostVars, lidMap, jidVars, extButName, livePc, liveMsg, hsPc,
                   hsPending, hsMsgs, hsBulkCalls, hsBulkOk>>

\* handleHistorySync, lines 558-571: additionalPushNames collected over the
\* messages of the event
RECURSIVE CollectPushNames(_, _, _)
CollectPushNames(payload, contactName, additionalPushNames) ==
    IF payload = <<>> THEN additionalPushNames
    ELSE LET e == Head(payload)
             p == ParseJID(e.conv)
         IN IF ~p.ok THEN CollectPushNames(Tail(payload), contactName, additionalPushNames)
            ELSE LET sender == SenderOf(p.jid)
                     senderPushName == getSenderPushName(e.push, p.jid.Server = "g.us",
                                                         FALSE, contactName)
                 IN CollectPushNames(Tail(payload), contactName,
                        IF senderPushName # ""
                        THEN Put(additionalPushNames, PushNameKey(sender), senderPushName)
                        ELSE additionalPushNames)

\* the HistorySync events explored: one message of one conversation
NamePayloads ==
    {<<[conv |-> String(j), id |-> id, ts |-> MaxTime, push |-> push]>> :
        j \in EventChats, id \in MsgIds, push \in PushNames}

\* handleHistorySync for one event: the chats, the messages in one SaveBulk (an
\* error returns), then the push names collected from the messages
handleHistorySync ==
    /\ nameEvents < MaxNameEvents
    /\ nameEvents' = nameEvents + 1
    /\ \E payload \in NamePayloads, name \in LibraryNames, namesOk \in BOOLEAN :
       \E b \in {HSBuild(chats, lidMap, [group |-> name, contact |-> name], payload,
                         EmptyTable, <<>>)} :
       \E okSet \in SUBSET DOMAIN b.chatMap, failAt \in 0..(Len(b.all) + 1) :
       \E saved \in {SaveChats(chats, b.chatMap, okSet)} :
       \E r \in {IF b.all # <<>> THEN SaveBulk(messages, saved, b.all, failAt)
                 ELSE [ok |-> TRUE, messages |-> messages]} :
       \E additionalPushNames \in {CollectPushNames(payload, name, EmptyTable)} :
            /\ chats' = saved
            /\ messages' = r.messages
            /\ push_names' = IF r.ok /\ DOMAIN additionalPushNames # {}
                             THEN SavePushNames(push_names, additionalPushNames, namesOk)
                             ELSE push_names
    /\ UNCHANGED <<whVars, ghostVars, lidMap, jidVars, extButName, livePc, liveMsg, hsPc,
                   hsPending, hsMsgs, hsBulkCalls, hsBulkOk>>

NameNext == processMessageData \/ handleHistorySync

-----------------------------------------------------------------------------
(* The migration runner (storage Migrator: Migrate, MigrateTo) *)

MaxMigTime == 3

\* names in the embedded migrations directory, as character sequences
File001a == <<"0", "0", "1", "_", "a", ".", "s", "q", "l">>
File002bc == <<"0", "0", "2", "_", "b", "_", "c", ".", "s", "q", "l">>
File002d == <<"0", "0", "2", "_", "d", ".", "s", "q", "l">>
File003e == <<"0", "0", "3", "_", "e", ".", "s", "q", "l">>
File1x == <<"1", "_", "x", ".", "s", "q", "l">>

\* the directory holding the given <<name, bytes>> pairs
Dir(files) == [name \in {f[1] : f \in files} |-> (CHOOSE f \in files : f[1] = name)[2]]

\* the directories a build can embed: well-formed ones of one to three
\* migrations, the same with other bytes in a file, and ones with a gap, a
\* first version other than 1, a duplicate version and a file outside the
\* pattern
FileSystems ==
    {Dir({}),
     Dir({<<File001a, "A">>}),
     Dir({<<File001a, "B">>}),
     Dir({<<File001a, "A">>, <<File002bc, "A">>}),
     Dir({<<File001a, "B">>, <<File002bc, "A">>}),
     Dir({<<File001a, "A">>, <<File002bc, "B">>}),
     Dir({<<File001a, "A">>, <<File002d, "A">>}),
     Dir({<<File001a, "A">>, <<File002bc, "A">>, <<File003e, "A">>}),
     Dir({<<File001a, "A">>, <<File003e, "A">>}),
     Dir({<<File002d, "A">>}),
     Dir({<<File001a, "A">>, <<File002bc, "A">>, <<File002d, "B">>}),
     Dir({<<File001a, "A">>, <<File1x, "A">>})}

\* regexp ^(\d{3})_(.+)\.sql$ : the submatches, or none
FindStringSubmatch(filename) ==
    LET n == Len(filename)
    IN IF /\ n >= 9
          /\ \A i \in 1..3 : IsNumeral(filename[i])
          /\ filename[4] = "_"
          /\ SubSeq(filename, n - 3, n) = <<".", "s", "q", "l">>
       THEN [matched |-> TRUE, versionStr |-> SubSeq(filename, 1, 3),
             description |-> SubSeq(filename, 5, n - 4)]
       ELSE [matched |-> FALSE, versionStr |-> <<>>, description |-> <<>>]

\* strconv.Atoi on a string of decimal digits
RECURSIVE AtoiDigits(_)
AtoiDigits(digits) ==
    IF digits = <<>> THEN 0
    ELSE 10 * AtoiDigits(SubSeq(digits, 1, Len(digits) - 1)) + Atoi(digits[Len(digits)])

\* strings.ReplaceAll(description, "_", " ")
ReplaceUnderscores(description) ==
    [i \in 1..Len(description) |-> IF description[i] = "_" THEN " " ELSE description[i]]

\* fmt.Sprintf("%x", sha256.Sum256(content)): one digest per content
Sha256Hex(content) == <<"sha256", content>>

\* the Migration loadMigrations builds from one matching file
MkMigration(filename, content) ==
    LET matches == FindStringSubmatch(filename)
    IN [Version |-> AtoiDigits(matches.versionStr),
        Description |-> ReplaceUnderscores(matches.description),
        SQL |-> content,
        Checksum |-> Sha256Hex(content),
        Filename |-> filename]

\* the Migrations of the files that match the pattern
ParsedMigrations(fs) ==
    {MkMigration(f, fs[f]) : f \in {g \in DOMAIN fs : FindStringSubmatch(g).matched}}

\* sort.Slice by Version: an ordering of the set with versions ascending
SortByVersion(migs) ==
    CHOOSE s \in [1..Cardinality(migs) -> migs] :
        /\ \A m \in migs : \E i \in DOMAIN s : s[i] = m
        /\ \A i, j \in DOMAIN s : i < j => s[i].Version <= s[j].Version

\* a sequence check that accepts the versions 2, 3, ...
SequenceFromTwo(sorted) == \A i \in DOMAIN sorted : sorted[i].Version = i + 1

\* the sequence check of loadMigrations: position i (from 0) holds version i + 1
SequenceOK(sorted) == \A i \in DOMAIN sorted : sorted[i].Version = i

\* loadMigrations
loadMigrations(fs) ==
    LET sorted == SortByVersion(ParsedMigrations(fs))
    IN IF SequenceOK(sorted)
       THEN [err |-> FALSE, migrations |-> sorted]
       ELSE [err |-> TRUE, migrations |-> <<>>]

\* getCurrentVersion: SELECT COALESCE(MAX(version), 0) FROM schema_migrations
getCurrentVersion(rows) ==
    IF DOMAIN rows = {} THEN 0
    ELSE CHOOSE v \in DOMAIN rows : \A w \in DOMAIN rows : w <= v

\* validateAppliedMigrations without the comparison of checksums
validateRecordedOnly(rows, migrations, currentVersion) ==
    \A i \in DOMAIN migrations :
        migrations[i].Version <= currentVersion =>
            migrations[i].Version \in DOMAIN rows

\* validateAppliedMigrations returns nil: every migration up to the current
\* version has a row, holding the checksum of the file
validateAppliedMigrations(rows, migrations, currentVersion) ==
    \A i \in DOMAIN migrations :
        migrations[i].Version <= currentVersion =>
            /\ migrations[i].Version \in DOMAIN rows
            /\ rows[migrations[i].Version].checksum = migrations[i].Checksum

\* a filter that also keeps the migration at the current version
filterFromCurrent(migrations, currentVersion) ==
    SelectSeq(migrations, LAMBDA m : m.Version >= currentVersion)

\* filterPendingMigrations
filterPendingMigrations(migrations, currentVersion) ==
    SelectSeq(migrations, LAMBDA m : m.Version > currentVersion)

\* MigrateTo, step 4: a positive target names a loaded migration
TargetFound(migrations, targetVersion) ==
    targetVersion > 0 => \E i \in DOMAIN migrations : migrations[i].Version = targetVersion

\* a selection that takes the target migration alone, skipping the pending
\* migrations below it
migrationsTargetOnly(migrations, currentVersion, targetVersion) ==
    SelectSeq(migrations,
              LAMBDA m : /\ m.Version > currentVersion
                         /\ (targetVersion <= 0 \/ m.Version = targetVersion))

\* MigrateTo, step 6: pending migrations up to the target
migrationsToApply(migrations, currentVersion, targetVersion) ==
    SelectSeq(migrations,
              LAMBDA m : /\ m.Version > currentVersion
                         /\ (targetVersion <= 0 \/ m.Version <= targetVersion))

\* the row applyMigration inserts
MigrationRow(migration, now) ==
    [description |-> migration.Description, applied_at |-> now,
     checksum |-> migration.Checksum]

ApplyOutcomes == {"ok", "exec", "insert", "commit"}

\* applyMigration whose failed insert leaves the executed SQL in place
applyNoRollback(db, migration, now, outcome) ==
    IF outcome = "exec" THEN [db |-> db, err |-> TRUE]
    ELSE IF outcome = "insert" \/ migration.Version \in DOMAIN db.rows
    THEN [db |-> [db EXCEPT !.schema = @ \cup {<<migration.Version, migration.SQL>>}],
          err |-> TRUE]
    ELSE IF outcome = "commit" THEN [db |-> db, err |-> TRUE]
    ELSE [db |-> [rows |-> Put(db.rows, migration.Version, MigrationRow(migration, now)),
                  schema |-> db.schema \cup {<<migration.Version, migration.SQL>>}],
          err |-> FALSE]

\* applyMigration: the SQL and the row are committed together; a failure of
\* the SQL, of the insert (version is the primary key) or of the commit rolls
\* the transaction back
applyMigration(db, migration, now, outcome) ==
    IF outcome # "ok" \/ migration.Version \in DOMAIN db.rows
    THEN [db |-> db, err |-> TRUE]
    ELSE [db |-> [rows |-> Put(db.rows, migration.Version, MigrationRow(migration, now)),
                  schema |-> db.schema \cup {<<migration.Version, migration.SQL>>}],
          err |-> FALSE]

NoRun == [rows |-> EmptyTable, schema |-> {}, attempted |-> <<>>,
          after |-> [pc |-> "idle", last |-> "embed"]]

\* Migrate and MigrateTo, steps 1 to 5 (6 for MigrateTo): entry is the function
\* called, target the argument of MigrateTo
MigrateBegin(entry, target) ==
    /\ migPc # "apply"
    /\ migNow < MaxMigTime
    /\ migNow' = migNow + 1
    /\ migLast' = entry
    /\ migRun' = [rows |-> schema_migrations, schema |-> schemaObjects, attempted |-> <<>>,
                  after |-> [pc |-> migPc, last |-> migLast]]
    /\ \E dbOk \in BOOLEAN :
         \E loaded \in {loadMigrations(migrationsFS)} :
           LET currentVersion == getCurrentVersion(schema_migrations)
               toApply == IF entry = "Migrate"
                          THEN filterPendingMigrations(loaded.migrations, currentVersion)
                          ELSE migrationsToApply(loaded.migrations, currentVersion, target)
               ok == /\ dbOk
                     /\ ~loaded.err
                     /\ entry = "MigrateTo" => TargetFound(loaded.migrations, target)
                     /\ validateAppliedMigrations(schema_migrations, loaded.migrations,
                                                  currentVersion)
           IN /\ migPc' = IF ~ok THEN "error" ELSE IF toApply = <<>> THEN "ok" ELSE "apply"
              /\ migToApply' = IF ok THEN toApply ELSE <<>>
    /\ UNCHANGED <<migrationsFS, schema_migrations, schemaObjects>>
    /\ UNCHANGED <<whVars, stVars, ghostVars, lidMap, jidVars, extButMig>>

Migrate == MigrateBegin("Migrate", 0)

MigrateTo == \E targetVersion \in 0..3 : MigrateBegin("MigrateTo", targetVersion)

\* the loop over the migrations to apply: one applyMigration call; the first
\* error returns
ApplyNext ==
    /\ migPc = "apply"
    /\ \E outcome \in ApplyOutcomes :
         LET migration == Head(migToApply)
             r == applyMigration([rows |-> schema_migrations, schema |-> schemaObjects],
                                 migration, migNow, outcome)
         IN /\ schema_migrations' = r.db.rows
            /\ schemaObjects' = r.db.schema
            /\ migRun' = [migRun EXCEPT !.attempted =
                            Append(@, [migration |-> migration, err |-> r.err])]
            /\ migToApply' = IF r.err THEN <<>> ELSE Tail(migToApply)
            /\ migPc' = IF r.err THEN "error"
                        ELSE IF Tail(migToApply) = <<>> THEN "ok" ELSE "apply"
    /\ UNCHANGED <<migrationsFS, migNow, migLast>>
    /\ UNCHANGED <<whVars, stVars, ghostVars, lidMap, jidVars, extButMig>>

\* a new build embeds another migrations directory
EmbedFiles ==
    /\ migPc # "apply"
    /\ migNow < MaxMigTime
    /\ migNow' = migNow + 1
    /\ migrationsFS' \in FileSystems \ {migrationsFS}
    /\ migLast' = "embed"
    /\ UNCHANGED <<schema_migrations, schemaObjects, migPc, migToApply, migRun>>
    /\ UNCHANGED <<whVars, stVars, ghostVars, lidMap, jidVars, extButMig>>

\* a row of schema_migrations is lost between runs (the database file is
\* edited or restored by hand): the case validateAppliedMigrations reports as
\* "missing from schema_migrations table"
LoseRecord ==
    /\ migPc # "apply"
    /\ migNow < MaxMigTime
    /\ migNow' = migNow + 1
    /\ \E v \in DOMAIN schema_migrations : schema_migrations' = Drop(schema_migrations, v)
    /\ migLast' = "lose"
    /\ UNCHANGED <<migrationsFS, schemaObjects, migPc, migToApply, migRun>>
    /\ UNCHANGED <<whVars, stVars, ghostVars, lidMap, jidVars, extButMig>>

MigrateNext == Migrate \/ MigrateTo \/ ApplyNext \/ EmbedFiles \/ LoseRecord

\* the calls of one build on its own database: no other directory is embedded
\* and no row is edited between the runs
MigrateRunsNext == Migrate \/ MigrateTo \/ ApplyNext

-----------------------------------------------------------------------------
(* The webhook registry: admin API (webhook/handler.go) over WebhookStore *)

MaxAdminOps == 3

\* supportedEventTypes
supportedEventTypes == {"message"}

\* event_types lists a request body can carry
RequestEventTypes == {<<>>, <<"message">>, <<"status">>, <<"message", "">>}

\* ids uuid.New() hands to CreateWebhook, in order
WebhookUUIDs == <<"u1", "u2", "u3", "u4">>
PrimaryID == "system:primary"

\* validateEventTypes returns nil: the list is empty ("will use default") or
\* every element is non-empty and supported
validateEventTypes(eventTypes) ==
    \/ Len(eventTypes) = 0
    \/ \A i \in DOMAIN eventTypes :
          eventTypes[i] # "" /\ eventTypes[i] \in supportedEventTypes

\* json.Marshal and json.Unmarshal of a []string
MarshalJSON(eventTypes) == <<"json", eventTypes>>
UnmarshalJSON(text) == text[2]

\* the webhook_registrations row the store writes
RegistrationRow(reg) == [event_types |-> MarshalJSON(reg.EventTypes), active |-> reg.Active]

\* store.GetWebhook on a row that exists
GetWebhook(table, id) ==
    [ID |-> id, EventTypes |-> UnmarshalJSON(table[id].event_types), Active |-> table[id].active]

\* the lists the rows of the table hold
StoredEventTypes(table) == {UnmarshalJSON(table[id].event_types) : id \in DOMAIN table}

\* DELETE FROM webhook_registrations WHERE id = ?, with foreign_keys(1): the
\* webhook_deliveries rows of the webhook go with it (ON DELETE CASCADE)
DeleteCascade(table, rows, id) ==
    [registrations |-> Drop(table, id),
     deliveries |-> {d \in rows : d.webhook_id # id}]

AdminStep ==
    /\ adminOps < MaxAdminOps
    /\ adminOps' = adminOps + 1

\* main(), lines 187-203: the primary webhook is upserted when WEBHOOK_URL is set
RegisterPrimary ==
    /\ AdminStep
    /\ \E dbOk \in BOOLEAN :
         LET reg == [ID |-> PrimaryID, EventTypes |-> <<"message">>, Active |-> TRUE]
         IN registrations' = IF dbOk THEN Put(registrations, PrimaryID, RegistrationRow(reg))
                             ELSE registrations
    /\ UNCHANGED <<whVars, stVars, ghostVars, lidMap, jidVars, extButReg, recorded, uuids>>

\* Handler.CreateWebhook: POST /api/webhooks
CreateWebhook ==
    /\ AdminStep
    /\ uuids < Len(WebhookUUIDs)
    /\ \E urlOk \in BOOLEAN, given \in RequestEventTypes, dbOk \in BOOLEAN :
         LET eventTypes == IF Len(given) = 0 THEN <<"message">> ELSE given
             valid == urlOk /\ validateEventTypes(eventTypes)
             reg == [ID |-> WebhookUUIDs[uuids + 1], EventTypes |-> eventTypes, Active |-> TRUE]
         IN /\ uuids' = IF valid THEN uuids + 1 ELSE uuids
            /\ registrations' = IF valid /\ dbOk
                                THEN Put(registrations, reg.ID, RegistrationRow(reg))
                                ELSE registrations
    /\ UNCHANGED <<whVars, stVars, ghostVars, lidMap, jidVars, extButReg, recorded>>

\* Handler.UpdateWebhook: PUT /api/webhooks/{id}; a field absent from the body
\* keeps its value
UpdateWebhook ==
    /\ AdminStep
    /\ \E id \in DOMAIN registrations, urlOk \in BOOLEAN, dbOk \in BOOLEAN,
          hasEventTypes \in BOOLEAN, given \in RequestEventTypes,
          hasActive \in BOOLEAN, active \in BOOLEAN :
         LET webhook == GetWebhook(registrations, id)
             valid == urlOk /\ (hasEventTypes => validateEventTypes(given))
             reg == [ID |-> id,
                     EventTypes |-> IF hasEventTypes THEN given ELSE webhook.EventTypes,
                     Active |-> IF hasActive THEN active ELSE webhook.Active]
         IN registrations' = IF valid /\ dbOk
                             THEN [registrations EXCEPT ![id] = RegistrationRow(reg)]
                             ELSE registrations
    /\ UNCHANGED <<whVars, stVars, ghostVars, lidMap, jidVars, extButReg, recorded, uuids>>

\* Handler.DeleteWebhook: DELETE /api/webhooks/{id}
DeleteWebhook ==
    /\ AdminStep
    /\ \E id \in DOMAIN registrations, dbOk \in BOOLEAN :
         LET r == DeleteCascade(registrations, deliveries, id)
         IN /\ registrations' = IF dbOk THEN r.registrations ELSE registrations
            /\ deliveries' = IF dbOk THEN r.deliveries ELSE deliveries
    /\ UNCHANGED <<whButDeliveries, stVars, ghostVars, lidMap, jidVars, extButReg, recorded,
                   uuids>>

\* deliverWebhook's store.RecordDelivery for an attempt at a registered webhook
\* (the insert fails when the webhook_id has no registration: foreign key)
RecordAttempt ==
    /\ AdminStep
    /\ \E id \in DOMAIN registrations, attempt \in 1..Len(RetryBackoff),
          ok \in BOOLEAN, dbOk \in BOOLEAN :
         LET row == DeliveryRow([webhook |-> id, payload |-> 1, attempt |-> attempt], ok)
         IN /\ deliveries' = RecordDelivery(deliveries, row, dbOk)
            /\ recorded' = RecordDelivery(recorded, row, dbOk)
    /\ UNCHANGED <<whButDeliveries, stVars, ghostVars, lidMap, jidVars, extButReg,
                   registrations, uuids>>

AdminNext ==
    \/ (RegisterPrimary /\ UNCHANGED httpVars)
    \/ (CreateWebhook /\ UNCHANGED httpVars)
    \/ (UpdateWebhook /\ UNCHANGED httpVars)
    \/ (DeleteWebhook /\ UNCHANGED httpVars)
    \/ (RecordAttempt /\ UNCHANGED httpVars)

-----------------------------------------------------------------------------
(* The admin endpoints behind ValidateAuth (main.go, webhook/handler.go) *)

\* MCP_API_KEY, as a string of tokens
APIKey == <<"k1">>

\* values of the Authorization header explored; <<>> is a request without one
AuthHeaders ==
    {<<>>,
     <<"Bearer", " ", "k1">>,
     <<"Bearer", " ", "k2">>,
     <<"bearer", " ", "k1">>,
     <<"Bearer", " ", "k1", "x">>,
     <<"Bearer", " ">>,
     <<"k1">>}

\* subtle.ConstantTimeCompare: 1 iff both have the same length and contents
ConstantTimeCompare(x, y) ==
    IF Len(x) = Len(y) /\ \A i \in DOMAIN x : x[i] = y[i] THEN 1 ELSE 0

\* a comparison of the header's beginning only
ValidateAuthPrefix(authHeader) ==
    LET expectedAuth == <<"Bearer", " ">> \o APIKey
    IN Len(authHeader) >= Len(expectedAuth)
       /\ ConstantTimeCompare(SubSeq(authHeader, 1, Len(expectedAuth)), expectedAuth) = 1

\* Handler.ValidateAuth
ValidateAuth(authHeader) ==
    LET expectedAuth == <<"Bearer", " ">> \o APIKey
    IN ConstantTimeCompare(authHeader, expectedAuth) = 1

\* the response to a request carrying the given header is written
Respond(authHeader, status) ==
    /\ httpReq' = [n |-> httpReq.n + 1, authorization |-> authHeader]
    /\ httpStatus' = status

\* both mux handlers, lines 291-295 and 307-311: 401 without calling a handler
ServeUnauthorized ==
    /\ AdminStep
    /\ \E authHeader \in AuthHeaders :
         ~ValidateAuth(authHeader) /\ Respond(authHeader, "401")
    /\ UNCHANGED <<whVars, stVars, ghostVars, lidMap, jidVars, extButReg, registrations,
                   recorded, uuids, storeReads, testDeliveries>>

\* POST /api/webhooks
ServeCreate ==
    /\ \E authHeader \in AuthHeaders : ValidateAuth(authHeader) /\ Respond(authHeader, "handled")
    /\ CreateWebhook
    /\ UNCHANGED <<storeReads, testDeliveries>>

\* PUT /api/webhooks/{id}: GetWebhook, then the update
ServeUpdate ==
    /\ \E authHeader \in AuthHeaders : ValidateAuth(authHeader) /\ Respond(authHeader, "handled")
    /\ UpdateWebhook
    /\ storeReads' = storeReads + 1
    /\ UNCHANGED testDeliveries

\* DELETE /api/webhooks/{id}
ServeDelete ==
    /\ \E authHeader \in AuthHeaders : ValidateAuth(authHeader) /\ Respond(authHeader, "handled")
    /\ DeleteWebhook
    /\ UNCHANGED <<storeReads, testDeliveries>>

\* GET /api/webhooks, GET /api/webhooks/{id}, GET /api/webhooks/{id}/stats:
\* ListWebhooks, GetWebhook, GetDeliveryStats
ServeRead ==
    /\ AdminStep
    /\ \E authHeader \in AuthHeaders : ValidateAuth(authHeader) /\ Respond(authHeader, "handled")
    /\ storeReads' = storeReads + 1
    /\ UNCHANGED <<whVars, stVars, ghostVars, lidMap, jidVars, extButReg, registrations,
                   recorded, uuids, testDeliveries>>

\* POST /api/webhooks/{id}/test: GetWebhook, then TestDelivery, which is
\* deliverWebhook with attempt 1: one POST and its webhook_deliveries row
ServeTest ==
    /\ AdminStep
    /\ \E authHeader \in AuthHeaders : ValidateAuth(authHeader) /\ Respond(authHeader, "handled")
    /\ storeReads' = storeReads + 1
    /\ \E id \in DOMAIN registrations, ok \in BOOLEAN, dbOk \in BOOLEAN :
         LET row == DeliveryRow([webhook |-> id, payload |-> 2, attempt |-> 1], ok)
         IN /\ deliveries' = RecordDelivery(deliveries, row, dbOk)
            /\ recorded' = RecordDelivery(recorded, row, dbOk)
    /\ testDeliveries' = testDeliveries + 1
    /\ UNCHANGED <<whButDeliveries, stVars, ghostVars, lidMap, jidVars, extButReg,
                   registrations, uuids>>

ServeNext ==
    \/ ServeUnauthorized
    \/ ServeCreate
    \/ ServeUpdate
    \/ ServeDelete
    \/ ServeRead
    \/ ServeTest
    \/ (RegisterPrimary /\ UNCHANGED httpVars)

-----------------------------------------------------------------------------
(* send_message: whatsapp/client.go SendTextMessage *)

MaxSends == 1

\* chat_jid arguments explored: the user u1 by phone number, a group, and a
\* string types.ParseJID rejects
SendTargets ==
    {String(MkJID("u1", 0, 0, DefaultUserServer)),
     String(MkJID("g1", 0, 0, "g.us")),
     <<"u1", ":", "x", "@", DefaultUserServer>>}

\* the JID messages are sent as: this account, with its device
OwnJID == MkJID("me", 0, 1, DefaultUserServer)

\* ids the protocol client gives to sent messages, in order
SentIds == <<"s1", "s2", "s3">>

NoSend == [ok |-> FALSE, chat |-> <<>>, id |-> ""]

\* SendTextMessage: parse the JID, send, and on success SaveMessage, whose error
\* is not looked at
SendTextMessage ==
    /\ sends < MaxSends
    /\ sends' = sends + 1
    /\ \E chatJID \in SendTargets, sendOk \in BOOLEAN, ts \in Times, dbOk \in BOOLEAN :
         IF ParseJID(chatJID).ok /\ sendOk
         THEN LET msg == [ID |-> SentIds[sends + 1], ChatJID |-> chatJID,
                          SenderJID |-> String(OwnJID), Timestamp |-> ts, IsFromMe |-> TRUE]
              IN /\ messages' = SaveMessage(messages, chats, msg, dbOk).messages
                 /\ sendRes' = [ok |-> TRUE, chat |-> chatJID, id |-> msg.ID]
         ELSE /\ sendRes' = NoSend
              /\ UNCHANGED messages
    /\ UNCHANGED <<whVars, ghostVars, lidMap, jidVars, extButSend, chats, livePc, liveMsg,
                   hsPc, hsPending, hsMsgs, hsBulkCalls, hsBulkOk>>

SendNext == LiveSaveChat \/ LiveSaveMessage \/ SendTextMessage

-----------------------------------------------------------------------------
(* Media of live messages (whatsapp handleMessage, downloadMediaWithRetry) *)

MaxMediaEvents == 1

\* getMediaTypeFromMessage: a downloadable kind, a contact card, or none
MediaTypes == {"image", "vcard", ""}

\* the row extractMediaMetadata builds; the initial status is
\* getInitialDownloadStatus for a live message
getInitialDownloadStatus(autoDownload) == IF autoDownload THEN "pending" ELSE "skipped"

\* MediaStore.SaveMediaMetadata: the row is written unless the statement fails;
\* message_id REFERENCES messages(id) is checked as the row is inserted
SaveMediaMetadata(mediaTable, msgTable, id, status, dbOk) ==
    IF ~dbOk \/ id \notin DOMAIN msgTable
    THEN [ok |-> FALSE, media |-> mediaTable]
    ELSE [ok |-> TRUE, media |-> Put(mediaTable, id, [download_status |-> status])]

\* INSERT OR REPLACE INTO messages over an existing id deletes the old row first:
\* ON DELETE CASCADE removes the media_metadata row of that message
ReplaceCascade(mediaTable, msgTable, id, ok) ==
    IF ok /\ id \in DOMAIN msgTable THEN Drop(mediaTable, id) ELSE mediaTable

\* MediaStore.UpdateDownloadStatus: UPDATE ... WHERE message_id = ?
UpdateDownloadStatus(mediaTable, id, status) ==
    IF id \in DOMAIN mediaTable
    THEN [mediaTable EXCEPT ![id].download_status = status]
    ELSE mediaTable

NoMediaEvent == [id |-> "", mediaType |-> "", clean |-> FALSE, fk |-> FALSE]

\* handleMessage for one Message event that is neither a sender-key distribution
\* nor a poll: the media step (lines 351-392), then processMessageData
handleMessage ==
    /\ ~clientCancelled
    /\ mediaEvents < MaxMediaEvents
    /\ mediaEvents' = mediaEvents + 1
    /\ \E chat \in EventChats, id \in MsgIds, ts \in Times, mediaType \in MediaTypes,
          autoDownload, metaOk, chatOk, msgOk \in BOOLEAN :
        LET hasMedia == mediaType \notin {"", "vcard", "contact_array"}
            saved == IF hasMedia
                     THEN SaveMediaMetadata(media_metadata, messages, id,
                                            getInitialDownloadStatus(autoDownload), metaOk)
                     ELSE [ok |-> FALSE, media |-> media_metadata]
            isGroup == chat.Server = "g.us"
            chatJID == normalizeJID(lidMap, chat)
            info == getChatInfo(chats, lidMap, chat, isGroup, "p1",
                                [group |-> "n1", contact |-> "n1"])
            c == SaveChat(chats, MkChat(chatJID, info, ts, isGroup), chatOk)
            m == IF LiveAfterSaveChat(c.ok) = "idle"
                 THEN [ok |-> FALSE, messages |-> messages]
                 ELSE SaveMessage(messages, c.chats,
                                  [ID |-> id, ChatJID |-> chatJID,
                                   SenderJID |-> normalizeJID(lidMap, SenderOf(chat)),
                                   Timestamp |-> ts, IsFromMe |-> FALSE], msgOk)
        IN /\ downloads' = IF saved.ok /\ autoDownload
                           THEN Append(downloads, [id |-> id, attempt |-> 1, pc |-> "run",
                                                   cause |-> "", status |-> "",
                                                   allErrors |-> <<>>, waits |-> <<>>,
                                                   backoff |-> 1])
                           ELSE downloads
           /\ chats' = c.chats
           /\ messages' = m.messages
           /\ media_metadata' = ReplaceCascade(saved.media, messages, id, m.ok)
           /\ mediaLast' = [id |-> id, mediaType |-> mediaType,
                            clean |-> chat # EmptyJID /\ metaOk /\ chatOk /\ msgOk,
                            fk |-> id \in DOMAIN messages]
    /\ UNCHANGED <<whVars, ghostVars, lidMap, jidVars, extButMedia, livePc, liveMsg, hsPc,
                   hsPending, hsMsgs, hsBulkCalls, hsBulkOk, clientCancelled, mediaFiles>>

maxRetries == 3

\* what one downloadMedia call can return: nil, one of the two "gone" errors of
\* the protocol library, or another error
DownloadOutcomes == {"ok", "404", "410", "error"}

\* err.Error() of what downloadMediaWithRetry returns.  The gone errors are
\* returned as the library made them (line 340): its DownloadHTTPError prints
\* "download failed with status code %d".
ErrorText(outcome, timedOut, attempt) ==
    CASE outcome = "404" -> "download failed with status code 404"
      [] outcome = "410" -> "download failed with status code 410"
      [] timedOut /\ attempt < maxRetries -> "context deadline exceeded"
      [] OTHER -> "download failed after 3 attempts"

\* the goroutine of handleMessage, lines 374-384: the status it passes to
\* UpdateDownloadStatus when downloadMediaWithRetry returns err with this text
StatusForError(text) == IF text = "media expired or deleted" THEN "expired" ELSE "failed"

\* the steps of downloadMedia that can return an error, in order: the path, the
\* directory, os.Create, the protocol download, file.Write, verifyDownload,
\* filepath.Rel
DownloadSteps == <<"path", "mkdir", "create", "download", "write", "verify", "rel">>

\* where an attempt with this outcome returns: the 404/410 errors come from the
\* protocol download, another error from any step
FailSteps(outcome) ==
    IF outcome = "ok" THEN {"none"}
    ELSE IF outcome \in {"404", "410"} THEN {"download"}
    ELSE {DownloadSteps[k] : k \in DOMAIN DownloadSteps}

\* downloadMedia, lines 200-262: the files on disk after an attempt for filePath
\* that returns at failStep ("none": returns nil).  os.Create makes the empty
\* file; the error paths after file.Write and the later steps call os.Remove,
\* the return on a Download error (lines 236-238) does not.
downloadMedia(files, filePath, failStep) ==
    IF failStep \in {"path", "mkdir", "create"} THEN files
    ELSE IF failStep = "download" THEN Put(files, filePath, "empty")
    ELSE IF failStep \in {"write", "verify", "rel"} THEN Drop(files, filePath)
    ELSE Put(files, filePath, "data")

\* generateMediaFilePath: one path per download and attempt (the name carries
\* the message id and the time to the second)
generateMediaFilePath(i, attempt) == <<i, attempt>>

\* a loop that also retries after a 404/410 error
DownloadRetriesGone(outcome, attempt, timedOut) ==
    outcome # "ok" /\ attempt < maxRetries /\ ~timedOut

\* downloadMediaWithRetry, lines 336-353: the loop goes on to another attempt
\* when the error is not a 404/410, attempts remain and the backoff elapses
\* before the context of the download is done
DownloadShouldRetry(outcome, attempt, timedOut) ==
    outcome = "error" /\ attempt < maxRetries /\ ~timedOut

\* one iteration of the loop of downloadMediaWithRetry for download i, with the
\* wait that follows a retryable failure; when the function returns, the
\* goroutine writes the final status.  The context is the one made at
\* handlers.go:371 from context.Background(): the client-wide context is not
\* consulted.
DownloadAttempt ==
    \E i \in DOMAIN downloads, outcome \in DownloadOutcomes, timedOut \in BOOLEAN :
      \E failStep \in FailSteps(outcome) :
        LET d == downloads[i]
            gone == outcome \in {"404", "410"}
            retry == DownloadShouldRetry(outcome, d.attempt, timedOut)
            status == IF outcome = "ok" THEN "downloaded"
                      ELSE StatusForError(ErrorText(outcome, timedOut, d.attempt))
            tried == [d EXCEPT !.allErrors = IF outcome = "ok" THEN @ ELSE Append(@, outcome)]
        IN /\ d.pc = "run"
           /\ downloads' = [downloads EXCEPT ![i] =
                  IF retry THEN [tried EXCEPT !.attempt = @ + 1,
                                              !.waits = Append(@, d.backoff),
                                              !.backoff = @ * 2]
                  ELSE [tried EXCEPT !.pc = "done", !.status = status,
                                     !.cause = IF outcome = "ok" THEN "ok"
                                               ELSE IF gone THEN "gone" ELSE "other"]]
           /\ media_metadata' = IF retry THEN media_metadata
                                ELSE UpdateDownloadStatus(media_metadata, d.id, status)
           /\ mediaFiles' = downloadMedia(mediaFiles, generateMediaFilePath(i, d.attempt),
                                          failStep)
    /\ UNCHANGED <<mediaLast, mediaEvents, clientCancelled>>
    /\ UNCHANGED <<whVars, stVars, ghostVars, lidMap, jidVars, extButMedia>>

\* Client.Disconnect, lines 143-147: c.cancel() on the client-wide context
Disconnect ==
    /\ ~clientCancelled
    /\ clientCancelled' = TRUE
    /\ UNCHANGED <<media_metadata, downloads, mediaLast, mediaEvents, mediaFiles>>
    /\ UNCHANGED <<whVars, stVars, ghostVars, lidMap, jidVars, extButMedia>>

MediaNext == handleMessage \/ DownloadAttempt \/ Disconnect

-----------------------------------------------------------------------------
(* Read tools: mcp/handlers.go over the queries of package storage *)

\* defaults and caps of the limit argument
DefaultLimit == 50
MaxChatsLimit == 100
MaxMessagesLimit == 200

\* an optional argument of a tool call: absent, or given with a value
Absent == <<>>
Given(value) == <<value>>

\* the limit arguments explored, JSON numbers in tenths
LimitArgs ==
    {Absent} \cup {Given(x) : x \in {-10, 0, 5, 20, 10 * MaxChatsLimit + 10,
                                       10 * MaxMessagesLimit + 10}}

\* request.GetFloat(key, default), in tenths
GetFloat(arg, default) == IF arg = Absent THEN 10 * default ELSE arg[1]

\* the cap the handlers apply: if limit > max { limit = max }
CapAbove(limit, max) == IF limit > 10 * max THEN 10 * max ELSE limit

\* int(f) on a float64 given in tenths: truncation toward zero
GoInt(tenths) == IF tenths >= 0 THEN tenths \div 10 ELSE -((-tenths) \div 10)

\* text LIKE '%q%'
Like(text, q) == \E i \in 1..(Len(text) - Len(q) + 1) : SubSeq(text, i, i + Len(q) - 1) = q

\* the elements of a set in some order
RECURSIVE SetToSeq(_)
SetToSeq(S) ==
    IF S = {} THEN <<>>
    ELSE LET x == CHOOSE y \in S : TRUE IN <<x>> \o SetToSeq(S \ {x})

\* the keys whose column lies in lo..hi, highest column first
RECURSIVE OrderDescFrom(_, _, _, _)
OrderDescFrom(keys, by, hi, lo) ==
    IF hi < lo THEN <<>>
    ELSE IF hi = lo THEN SetToSeq({k \in keys : by[k] = hi})
    ELSE LET mid == (hi + lo) \div 2
         IN OrderDescFrom({k \in keys : by[k] > mid}, by, hi, mid + 1)
            \o OrderDescFrom({k \in keys : by[k] <= mid}, by, mid, lo)

\* ORDER BY col DESC over a set of keys, by[k] being the (integer) column of
\* row k; rows with equal columns come in some order
OrderDesc(keys, by) ==
    IF keys = {} THEN <<>>
    ELSE LET vals == {by[k] : k \in keys}
         IN OrderDescFrom(keys, by, CHOOSE v \in vals : \A w \in vals : w <= v,
                          CHOOSE v \in vals : \A w \in vals : v <= w)

\* LIMIT ? OFFSET ? as SQLite applies them: a negative limit is no limit, a
\* negative offset is 0
LimitOffset(rows, limit, offset) ==
    LET from == IF offset < 0 THEN 0 ELSE offset
        upto == IF limit < 0 THEN Len(rows) ELSE Min(Len(rows), from + limit)
    IN SubSeq(rows, from + 1, upto)

\* SearchMessagesWithNames(q, limit): ids of the rows found
SearchMessagesWithNames(msgTable, q, limit) ==
    LimitOffset(OrderDesc({id \in DOMAIN msgTable : Like(msgTable[id].text, q)},
                          [id \in DOMAIN msgTable |-> msgTable[id].timestamp]),
                limit, 0)

\* GetChatMessagesWithNames(chatJID, limit, offset)
GetChatMessagesWithNames(msgTable, chatJID, limit, offset) ==
    LimitOffset(OrderDesc({id \in DOMAIN msgTable : msgTable[id].chat_jid = chatJID},
                          [id \in DOMAIN msgTable |-> msgTable[id].timestamp]),
                limit, offset)

\* ListChats(limit)
ListChats(chatTable, limit) ==
    LimitOffset(OrderDesc(DOMAIN chatTable,
                          [jid \in DOMAIN chatTable |-> chatTable[jid].last_message_time]),
                limit, 0)

NoCall == [tool |-> "", from |-> Absent, query |-> Absent, limit |-> Absent]
NoToolResult == [isError |-> FALSE, rows |-> <<>>]

\* the senders and the chat of the stored messages
QuerySenders == {String(MkJID("u1", 0, 0, DefaultUserServer)),
                 String(MkJID("u2", 0, 0, DefaultUserServer))}
QueryChat == String(MkJID("g1", 0, 0, "g.us"))

\* one tool call on the store
ToolCalled(tool, from, query, limit) ==
    /\ toolCall = NoCall
    /\ toolCall' = [tool |-> tool, from |-> from, query |-> query, limit |-> limit]
    /\ UNCHANGED <<whVars, stVars, ghostVars, lidMap, jidVars, extButQuery>>

\* handleListChats
handleListChats ==
    \E limitArg \in LimitArgs, dbOk \in BOOLEAN :
        /\ ToolCalled("list_chats", Absent, Absent, limitArg)
        /\ LET limit == CapAbove(GetFloat(limitArg, DefaultLimit), MaxChatsLimit)
           IN toolRes' = IF dbOk THEN [isError |-> FALSE, rows |-> ListChats(chats, GoInt(limit))]
                         ELSE [isError |-> TRUE, rows |-> <<>>]

\* handleGetChatMessages
handleGetChatMessages ==
    \E limitArg \in LimitArgs, offsetArg \in {Absent, Given(10), Given(-10)}, dbOk \in BOOLEAN :
        /\ ToolCalled("get_chat_messages", Absent, Absent, limitArg)
        /\ LET limit == CapAbove(GetFloat(limitArg, DefaultLimit), MaxMessagesLimit)
               offset == GetFloat(offsetArg, 0)
           IN toolRes' = IF dbOk
                         THEN [isError |-> FALSE,
                               rows |-> GetChatMessagesWithNames(messages, QueryChat,
                                                                 GoInt(limit), GoInt(offset))]
                         ELSE [isError |-> TRUE, rows |-> <<>>]

\* handleSearchMessages: query is required; the handler reads no other filter
handleSearchMessages ==
    \E limitArg \in LimitArgs, from \in {Absent} \cup {Given(j) : j \in QuerySenders},
       query \in {Absent, Given(<<>>), Given(<<"hi">>)}, dbOk \in BOOLEAN :
        /\ ToolCalled("search_messages", from, query, limitArg)
        /\ LET limit == CapAbove(GetFloat(limitArg, DefaultLimit), MaxMessagesLimit)
           IN toolRes' = IF query = Absent \/ ~dbOk THEN [isError |-> TRUE, rows |-> <<>>]
                         ELSE [isError |-> FALSE,
                               rows |-> SearchMessagesWithNames(messages, query[1], GoInt(limit))]

QueryNext == handleListChats \/ handleGetChatMessages \/ handleSearchMessages

\* a store of n messages in one group chat, from two senders in turn, and of
\* n DM chats besides the group; message i was received at second i
QueryStore(n) ==
    LET mid(i) == <<"m", i>>
        sender(i) == String(MkJID(IF i % 2 = 1 THEN "u1" ELSE "u2", 0, 0, DefaultUserServer))
        dm(i) == <<"c", i, "@", DefaultUserServer>>
        chatRow(jid, ts, isGroup) == ChatInsertRow(MkChat(jid, <<"p1", "">>, ts, isGroup))
    IN [messages |->
            [k \in {mid(i) : i \in 1..n} |->
                [chat_jid |-> QueryChat, sender_jid |-> sender(k[2]), timestamp |-> k[2],
                 is_from_me |-> FALSE, text |-> <<"hi", " ", "all">>]],
        chats |->
            [j \in {dm(i) : i \in 1..n} \cup {QueryChat} |->
                IF j = QueryChat THEN chatRow(j, n, TRUE) ELSE chatRow(j, j[2], FALSE)]]

\* sizes of the stores queried: small ones and one above the largest cap
QueryStoreSizes == {0, 1, 3, MaxMessagesLimit + 1}

-----------------------------------------------------------------------------
(* Initial states *)

StoreInit_NoMap ==
    /\ chats = EmptyTable
    /\ messages = EmptyTable
    /\ livePc = "idle"
    /\ liveMsg = NoMsg
    /\ hsPc = "idle"
    /\ hsPending = EmptyTable
    /\ hsMsgs = <<>>
    /\ hsBulkCalls = 0
    /\ hsBulkOk = TRUE

StoreInit == StoreInit_NoMap /\ lidMap = KnownLIDs

\* the store at the time a HistorySync event arrives: empty, or holding the direct
\* chat of u1 with message m1 and the group g1
StoresBeforeSync ==
    LET u1 == normalizeJID(KnownLIDs, MkJID("l1", 0, 1, HiddenUserServer))
        g1 == normalizeJID(KnownLIDs, MkJID("g1", 0, 0, "g.us"))
        row(jid, isGroup) == ChatInsertRow(MkChat(jid, <<"p1", "">>, MaxTime, isGroup))
    IN {[chats |-> EmptyTable, messages |-> EmptyTable],
        [chats |-> (u1 :> row(u1, FALSE)) @@ (g1 :> row(g1, TRUE)),
         messages |-> ("m1" :> MessageRow([ID |-> "m1", ChatJID |-> u1, SenderJID |-> u1,
                                          Timestamp |-> MaxTime, IsFromMe |-> FALSE]))]}

GhostInit ==
    /\ gPush = EmptyTable
    /\ gContact = EmptyTable
    /\ gMaxTime = EmptyTable
    /\ gFirstGroup = EmptyTable
    /\ gLast = EmptyTable

SyncIdle ==
    /\ reqPc = [r \in Reqs |-> "idle"]
    /\ reqArgs = [r \in Reqs |-> NoArgs]
    /\ reqResult = [r \in Reqs |-> NoResult]
    /\ historySyncChans = EmptyTable
    /\ syncChan = [r \in Reqs |-> FALSE]
    /\ reqHandled = [r \in Reqs |-> FALSE]
    /\ sentRequests = 0
    /\ hsEvents = 0
    /\ hsLast = NoSyncEvent

\* the subsystems below the handlers at rest
MigIdle ==
    /\ migrationsFS = EmptyTable
    /\ schema_migrations = EmptyTable
    /\ schemaObjects = {}
    /\ migPc = "idle"
    /\ migToApply = <<>>
    /\ migRun = NoRun
    /\ migNow = 0
    /\ migLast = "embed"

RegIdle ==
    /\ registrations = EmptyTable
    /\ recorded = {}
    /\ uuids = 0
    /\ adminOps = 0

HttpIdle ==
    /\ httpReq = [n |-> 0, authorization |-> <<>>]
    /\ httpStatus = ""
    /\ storeReads = 0
    /\ testDeliveries = 0

SendIdle == sendRes = NoSend /\ sends = 0

QueryIdle == toolCall = NoCall /\ toolRes = NoToolResult

MediaIdle ==
    /\ media_metadata = EmptyTable
    /\ downloads = <<>>
    /\ mediaLast = NoMediaEvent
    /\ mediaEvents = 0
    /\ clientCancelled = FALSE
    /\ mediaFiles = EmptyTable

NameIdle == push_names = EmptyTable /\ nameEvents = 0

ExtIdle ==
    /\ SyncIdle /\ MigIdle /\ RegIdle /\ HttpIdle /\ SendIdle /\ QueryIdle /\ MediaIdle
    /\ NameIdle

JidIdle ==
    /\ jidPc = "in"
    /\ jidIn = EmptyJID
    /\ jidOut = <<>>
    /\ jidOut2 = <<>>

\* the webhook manager under main()
Init == WebhookInit /\ StoreInit /\ GhostInit /\ JidIdle /\ ExtIdle
Next == WebhookNext
Spec == Init /\ [][Next]_vars

\* the live-event handlers over the store
WebhookIdle == WebhookInit /\ cfgMaxRetries = LoadConfigMaxRetries(3)
InitLive == WebhookIdle /\ StoreInit /\ GhostInit /\ JidIdle /\ ExtIdle
SpecLive == InitLive /\ [][LiveNext]_vars

\* one HistorySync event handled over a store that live events have filled
InitHistory ==
    /\ WebhookIdle /\ GhostInit /\ JidIdle /\ ExtIdle
    /\ lidMap = KnownLIDs
    /\ \E st \in StoresBeforeSync : chats = st.chats /\ messages = st.messages
    /\ livePc = "idle" /\ liveMsg = NoMsg
    /\ hsPc = "idle" /\ hsPending = EmptyTable /\ hsMsgs = <<>>
    /\ hsBulkCalls = 0 /\ hsBulkOk = TRUE
SpecHistory == InitHistory /\ [][HistoryNext]_vars

\* any sequence of SaveChat calls on an empty store
SpecChat == InitLive /\ [][ChatNext]_vars

\* normalizeJID on every input JID, under every mapping
InitJID ==
    /\ WebhookIdle /\ StoreInit_NoMap /\ GhostInit /\ ExtIdle
    /\ lidMap \in LIDMaps
    /\ jidPc = "in" /\ jidIn \in JIDInputs /\ jidOut = <<>> /\ jidOut2 = <<>>
SpecJID == InitJID /\ [][JidNext]_vars

\* the store when history is requested: the chats of u1 and g1, and one message,
\* the anchor, in g1
SyncStore ==
    LET u1 == normalizeJID(KnownLIDs, MkJID("l1", 0, 0, HiddenUserServer))
        g1 == normalizeJID(KnownLIDs, MkJID("g1", 0, 0, "g.us"))
        row(jid, isGroup) == ChatInsertRow(MkChat(jid, <<"p1", "">>, MaxTime, isGroup))
    IN [chats |-> (u1 :> row(u1, FALSE)) @@ (g1 :> row(g1, TRUE)),
        messages |-> ("m1" :> MessageRow([ID |-> "m1", ChatJID |-> g1, SenderJID |-> u1,
                                          Timestamp |-> MaxTime, IsFromMe |-> FALSE]))]

\* RequestHistorySync calls running against HistorySync events
InitSync ==
    /\ WebhookIdle /\ GhostInit /\ JidIdle /\ ExtIdle
    /\ lidMap = KnownLIDs
    /\ chats = SyncStore.chats /\ messages = SyncStore.messages
    /\ livePc = "idle" /\ liveMsg = NoMsg
    /\ hsPc = "idle" /\ hsPending = EmptyTable /\ hsMsgs = <<>>
    /\ hsBulkCalls = 0 /\ hsBulkOk = TRUE
SpecSync == InitSync /\ [][SyncNext]_vars

\* runs of Migrate and MigrateTo on a fresh database, over every embedded
\* directory, with new builds and lost rows between the runs
InitMigrate ==
    /\ WebhookIdle /\ StoreInit /\ GhostInit /\ JidIdle /\ SyncIdle /\ RegIdle /\ HttpIdle
    /\ SendIdle /\ QueryIdle /\ MediaIdle /\ NameIdle
    /\ migrationsFS \in FileSystems
    /\ schema_migrations = EmptyTable
    /\ schemaObjects = {}
    /\ migPc = "idle"
    /\ migToApply = <<>>
    /\ migRun = NoRun
    /\ migNow = 0
    /\ migLast = "embed"
SpecMigrate == InitMigrate /\ [][MigrateNext]_vars

\* any sequence of Migrate and MigrateTo calls of one build, from an empty
\* database
SpecMigrateRuns == InitMigrate /\ [][MigrateRunsNext]_vars

\* any sequence of admin API calls, startup registrations and recorded delivery
\* attempts on an empty registry
SpecAdmin == InitLive /\ [][AdminNext]_vars

\* read tools called on stores of several sizes
InitQuery ==
    /\ WebhookIdle /\ GhostInit /\ JidIdle /\ ExtIdle
    /\ lidMap = KnownLIDs
    /\ \E n \in QueryStoreSizes :
          \E st \in {QueryStore(n)} : chats = st.chats /\ messages = st.messages
    /\ livePc = "idle" /\ liveMsg = NoMsg
    /\ hsPc = "idle" /\ hsPending = EmptyTable /\ hsMsgs = <<>>
    /\ hsBulkCalls = 0 /\ hsBulkOk = TRUE
SpecQuery == InitQuery /\ [][QueryNext]_vars

\* live Message events with media, over a store that is empty or already holds
\* message m1
InitMedia ==
    /\ WebhookIdle /\ GhostInit /\ JidIdle /\ ExtIdle
    /\ lidMap = KnownLIDs
    /\ \E st \in StoresBeforeSync : chats = st.chats /\ messages = st.messages
    /\ livePc = "idle" /\ liveMsg = NoMsg
    /\ hsPc = "idle" /\ hsPending = EmptyTable /\ hsMsgs = <<>>
    /\ hsBulkCalls = 0 /\ hsBulkOk = TRUE
SpecMedia == InitMedia /\ [][MediaNext]_vars

\* live and history-sync messages with their push names, from the empty store
SpecNames == InitLive /\ [][NameNext]_vars
\* the download goroutines keep running
SpecMediaLive == SpecMedia /\ WF_vars(DownloadAttempt)

\* send_message calls between live events
SpecSend == InitLive /\ [][SendNext]_vars

\* requests to /api/webhooks and /api/webhooks/..., with every Authorization
\* header, after the startup registration
SpecServe == InitLive /\ [][ServeNext]_vars

-----------------------------------------------------------------------------
(* Properties of the webhook manager (specification Spec) *)

\* the webhook_deliveries rows of one (webhook, payload) pair
RowsOf(k) == {d \in deliveries : d.webhook_id = k[1] /\ d.payload_id = k[2]}

\* C1, as stated: for every (webhook, payload) pair the attempts performed and the
\* attempts recorded never exceed min(MaxRetries, len(RetryBackoff)), for every
\* MaxRetries, values <= 0 included.
RetryCapAsStated ==
    \A k \in DOMAIN attemptsMade :
        /\ attemptsMade[k] <= Min(cfgMaxRetries, Len(RetryBackoff))
        /\ Cardinality(RowsOf(k)) <= Min(cfgMaxRetries, Len(RetryBackoff))

\* C1, amended: the first attempt is always made, so the attempts performed and
\* recorded for a pair never exceed max(1, min(MaxRetries, len(RetryBackoff))).
RetryCap ==
    \A k \in DOMAIN attemptsMade :
        /\ attemptsMade[k] <= Max(1, Min(cfgMaxRetries, Len(RetryBackoff)))
        /\ Cardinality(RowsOf(k)) <= Max(1, Min(cfgMaxRetries, Len(RetryBackoff)))

\* a pair whose every attempt failed until the cap of three was reached
RetryCapReached ==
    /\ cfgMaxRetries = Len(RetryBackoff)
    /\ attemptsMade[<<"w1", 1>>] = Len(RetryBackoff)
    /\ Cardinality(RowsOf(<<"w1", 1>>)) = Len(RetryBackoff)
    /\ \A d \in RowsOf(<<"w1", 1>>) : ~d.success

\* a step of EmitMessageEvent's select statement
EmitSendStep == emitPc = "send" /\ emitQueue' # emitQueue

\* C2: when the queue already holds ChannelBufferSize tasks, the select drops the
\* task (it is not enqueued) and EmitMessageEvent goes on to return, and no
\* delivery attempt is ever made for a dropped task.
FullQueueDrops ==
    /\ [][(EmitSendStep /\ Len(deliveryChan) = ChannelBufferSize)
            => /\ EmitTask \in dropped'
               /\ deliveryChan' = deliveryChan
               /\ producerPanicked' = producerPanicked]_vars
    /\ [](\A t \in dropped : attemptsMade[<<t.webhook, t.payload>>] = 0)

\* C3: EmitMessageEvent never panics in the calling handler, in any state of the
\* manager, Stop() having run or not.
EmitNeverPanics == ~producerPanicked

-----------------------------------------------------------------------------
(* Properties of the live handlers (specification SpecLive) *)

\* C4: processMessageData issues the message upsert only after the chat upsert
\* for the canonical chat JID succeeded, so the chat row exists when the message
\* is about to be saved, and every message row references an existing chat row.
ChatBeforeMessage ==
    /\ livePc = "saveMessage" =>
         /\ liveMsg.ChatJID # <<>>
         /\ liveMsg.ChatJID \in DOMAIN chats
    /\ \A m \in DOMAIN messages : messages[m].chat_jid \in DOMAIN chats

\* a message of the @lid user stored under the canonical phone-number chat
LiveMessageStored ==
    /\ livePc = "idle"
    /\ "m1" \in DOMAIN messages
    /\ messages["m1"].chat_jid = <<"u1", "@", DefaultUserServer>>
    /\ messages["m1"].chat_jid \in DOMAIN chats

-----------------------------------------------------------------------------
(* Properties of handleHistorySync and SaveBulk (specification SpecHistory) *)

\* C5: every SaveChat call of the event precedes the SaveBulk call; SaveBulk is
\* called at most once, and exactly once when the event has a message to save.
ChatsBeforeBulkOnce ==
    /\ hsPc = "chats" => hsBulkCalls = 0
    /\ hsBulkCalls > 0 => DOMAIN hsPending = {}
    /\ hsPc = "bulk" => DOMAIN hsPending = {}
    /\ hsBulkCalls <= 1
    /\ hsPc = "done" => /\ DOMAIN hsPending = {}
                        /\ hsBulkCalls = IF hsMsgs # <<>> THEN 1 ELSE 0

\* an event with messages of two chats, handled to its end
HistoryTwoChatsDone ==
    /\ hsPc = "done"
    /\ hsBulkCalls = 1 /\ hsBulkOk
    /\ Len(hsMsgs) = 2
    /\ hsMsgs[1].ChatJID # hsMsgs[2].ChatJID
    /\ \A i \in 1..2 : hsMsgs[i].ChatJID \in DOMAIN chats

\* the index of the last message of the batch with the id of message i
LastWithId(batch, i) ==
    CHOOSE k \in 1..Len(batch) :
        /\ batch[k].ID = batch[i].ID
        /\ \A n \in (k + 1)..Len(batch) : batch[n].ID # batch[i].ID

\* C6: a SaveBulk call that fails leaves the messages table as it was; one that
\* succeeds leaves every message of the batch stored (the last of the batch for
\* an id) and the other rows as they were.
SaveBulkAllOrNothing ==
    [][hsBulkCalls' = hsBulkCalls + 1 =>
        IF hsBulkOk'
        THEN /\ \A i \in 1..Len(hsMsgs) :
                  /\ hsMsgs[i].ID \in DOMAIN messages'
                  /\ messages'[hsMsgs[i].ID] = MessageRow(hsMsgs[LastWithId(hsMsgs, i)])
             /\ \A m \in DOMAIN messages :
                  (\A i \in 1..Len(hsMsgs) : hsMsgs[i].ID # m) =>
                      m \in DOMAIN messages' /\ messages'[m] = messages[m]
        ELSE messages' = messages]_vars

\* a batch whose first insert succeeded and whose second violated the foreign
\* key: the first message is not stored
BulkRolledBack ==
    /\ hsPc = "done"
    /\ hsBulkCalls = 1 /\ ~hsBulkOk
    /\ Len(hsMsgs) = 2
    /\ hsMsgs[1].ChatJID \in DOMAIN chats
    /\ hsMsgs[2].ChatJID \notin DOMAIN chats
    /\ hsMsgs[1].ID \notin DOMAIN messages

-----------------------------------------------------------------------------
(* Properties of SaveChat (specification SpecChat) *)

\* C7: after any sequence of successful SaveChat calls for a JID the stored
\* push_name and contact_name are the last non-empty values supplied; an empty
\* value never replaces a stored one.
NamesKeepLastNonEmpty ==
    \A j \in DOMAIN chats :
        /\ chats[j].push_name = gPush[j]
        /\ chats[j].contact_name = gContact[j]

\* the last call supplied two empty names over stored ones
EmptyNamesKept ==
    \E j \in DOMAIN chats :
        /\ gLast[j].PushName = "" /\ chats[j].push_name = "p2"
        /\ gLast[j].ContactName = "" /\ chats[j].contact_name = "c1"

\* C8: after any sequence of successful SaveChat calls for a JID the stored
\* last_message_time is the largest LastMessageTime supplied.
LastMessageTimeIsMax ==
    \A j \in DOMAIN chats : chats[j].last_message_time = gMaxTime[j]

\* C9: the stored is_group is the value of the call that created the row.
IsGroupNeverFlipped ==
    \A j \in DOMAIN chats : chats[j].is_group = gFirstGroup[j]

-----------------------------------------------------------------------------
(* Properties of normalizeJID (specification SpecJID) *)

\* C10: parsing normalizeJID(x) and normalizing again yields normalizeJID(x); an
\* empty JID maps to the empty string; a group, broadcast or newsletter JID maps
\* to its own string, which parses back to it.
NormalizeIdempotent ==
    /\ jidPc = "twice" => jidOut2 = jidOut
    /\ (jidPc # "in" /\ IsEmpty(jidIn)) => jidOut = <<>>
    /\ (jidPc # "in" /\ jidIn.Server \in {"g.us", "broadcast", "newsletter"}) =>
         /\ jidOut = String(jidIn)
         /\ ParseJID(jidOut) = [ok |-> TRUE, jid |-> jidIn]

\* an @lid JID with a device suffix resolved to its phone number, twice
LIDNormalizedTwice ==
    /\ jidPc = "twice"
    /\ jidIn = MkJID("l1", 0, 1, HiddenUserServer)
    /\ lidMap["l1"] = "u1"
    /\ jidOut = <<"u1", "@", DefaultUserServer>>
    /\ jidOut2 = jidOut

\* the phone-number JID of the user an @lid JID is mapped to, on device d
PhoneForm(lm, jid, d) == MkJID(lm[jid.User], 0, d, DefaultUserServer)

\* C11: when the mapping holds a phone number for the user of an @lid JID,
\* normalizeJID of the @lid form equals normalizeJID of the phone-number form,
\* with any device suffix or none.
BothFormsOneKey ==
    (/\ jidPc # "in"
     /\ jidIn.Server = HiddenUserServer
     /\ jidIn.User \in DOMAIN lidMap
     /\ lidMap[jidIn.User] # "") =>
        \A d \in 0..MaxDevice :
            /\ jidOut = normalizeJID(lidMap, PhoneForm(lidMap, jidIn, d))
            /\ jidOut = <<lidMap[jidIn.User], "@", DefaultUserServer>>

\* the @lid JID of a user mapped to u2, normalized to the key of u2
LIDKeyedAsPhone ==
    /\ jidPc = "once"
    /\ jidIn = MkJID("l1", 0, 0, HiddenUserServer)
    /\ lidMap["l1"] = "u2"
    /\ jidOut = <<"u2", "@", DefaultUserServer>>

-----------------------------------------------------------------------------
(* Properties of RequestHistorySync (specification SpecSync) *)

\* C12: a wait-mode call whose request was sent returns the messages when an
\* ON_DEMAND batch of its chat was handled to the end while it waited, and a
\* timeout error otherwise; the messages are at most count rows of that chat, each
\* strictly older than the anchor, newest first.
WaitReturnsAfterBatch ==
    \A r \in Reqs :
        (reqPc[r] = "returned" /\ reqResult[r].kind \in {"messages", "timeout"}) =>
            /\ reqResult[r].kind = IF reqHandled[r] THEN "messages" ELSE "timeout"
            /\ reqResult[r].kind = "messages" =>
                 LET msgs == reqResult[r].msgs IN
                 /\ Len(msgs) <= reqArgs[r].count
                 /\ \A i \in 1..Len(msgs) :
                      /\ msgs[i].chat_jid = reqArgs[r].jid
                      /\ msgs[i].timestamp < reqArgs[r].anchor
                 /\ \A i, k \in 1..Len(msgs) :
                      i < k => msgs[i].timestamp >= msgs[k].timestamp

\* C13: a call on a chat with no stored message returns the no-anchor error at
\* once, in either mode: no request is sent and no channel is registered.
NoAnchorFailsFirst ==
    [][\A r \in Reqs :
        (/\ reqPc[r] = "idle" /\ reqPc'[r] # "idle"
         /\ ChatMessages(messages, reqArgs'[r].jid) = {}) =>
            /\ reqPc'[r] = "returned"
            /\ reqResult'[r].kind = "noAnchor"
            /\ historySyncChans' = historySyncChans
            /\ sentRequests' = sentRequests]_vars

\* two calls on the chat of u1, which has no message, one in each mode
NoAnchorBothModes ==
    /\ \A r \in Reqs : reqPc[r] = "returned" /\ reqResult[r].kind = "noAnchor"
    /\ \E r \in Reqs : reqArgs[r].wait
    /\ \E r \in Reqs : ~reqArgs[r].wait
    /\ ChatMessages(messages, reqArgs[1].jid) = {}
    /\ historySyncChans = EmptyTable
    /\ sentRequests = 0

-----------------------------------------------------------------------------
(* Payload ids of the webhook manager (specification Spec) *)

\* the (webhook, payload id) pairs of the delivery tasks queued, held by a
\* worker or waiting for a retry, and of the deliveries recorded
Carried ==
    {<<deliveryChan[i].webhook, deliveryChan[i].payload>> : i \in DOMAIN deliveryChan}
    \cup {<<workerTask[w].webhook, workerTask[w].payload>> :
             w \in {x \in DOMAIN workerTask : workerTask[x] # NoTask}}
    \cup {<<r.task.webhook, r.task.payload>> : r \in retries}
    \cup {<<d.webhook_id, d.payload_id>> : d \in deliveries}

\* C18: the payload id is fresh per event per webhook: the delivery tasks that
\* one event produces for two different webhooks carry different payload ids
\* (and ids are not reused across events; retries keep their id).
PayloadIdPerWebhook ==
    \A a, b \in Carried : a[1] # b[1] => a[2] # b[2]

-----------------------------------------------------------------------------
(* Properties of the migration runner (specification SpecMigrate) *)

\* the last thing done was a run of Migrate or MigrateTo: the directory and the
\* table are those of that run
AfterRun == migLast \in {"Migrate", "MigrateTo"}

\* the run applied nothing and left both tables as it found them
NothingApplied ==
    /\ migRun.attempted = <<>>
    /\ migToApply = <<>>
    /\ schema_migrations = migRun.rows
    /\ schemaObjects = migRun.schema

\* C14: a Migrate call made right after a Migrate call that succeeded, with the
\* same embedded files, applies no migration and leaves every row of
\* schema_migrations (version, description, applied_at, checksum) as it was.
MigrateIdempotent ==
    (migLast = "Migrate" /\ migRun.after = [pc |-> "ok", last |-> "Migrate"])
        => (migPc \in {"ok", "error"} /\ NothingApplied)

\* a second Migrate call has returned nil on a database the first one migrated
MigratedTwice ==
    /\ migLast = "Migrate" /\ migRun.after = [pc |-> "ok", last |-> "Migrate"]
    /\ migPc = "ok"
    /\ DOMAIN schema_migrations = {1, 2}

\* some file with a version up to the highest applied one has no row, or a row
\* with another checksum
Stale(fs, rows) ==
    \E m \in ParsedMigrations(fs) :
        /\ m.Version <= getCurrentVersion(rows)
        /\ (m.Version \notin DOMAIN rows \/ rows[m.Version].checksum # m.Checksum)

\* C15: when a file of an applied version (one up to the highest applied
\* version) has other bytes than were applied, or has no row in
\* schema_migrations, Migrate and MigrateTo fail before they apply anything:
\* the schema and schema_migrations stay as they were.
ChecksumGuard ==
    (AfterRun /\ Stale(migrationsFS, migRun.rows)) => (migPc = "error" /\ NothingApplied)

\* a run failed on a well-formed directory that has a pending migration and a
\* changed applied one
ChangedFileRefused ==
    /\ AfterRun /\ migPc = "error"
    /\ ~loadMigrations(migrationsFS).err
    /\ \E m \in ParsedMigrations(migrationsFS) : m.Version > getCurrentVersion(migRun.rows)
    /\ \E m \in ParsedMigrations(migrationsFS) :
          /\ m.Version \in DOMAIN migRun.rows
          /\ migRun.rows[m.Version].checksum # m.Checksum

\* the versions of the matching files are 1, 2, ..., N, each once
DenseFromOne(fs) ==
    LET ms == ParsedMigrations(fs)
    IN /\ \A m1, m2 \in ms : m1.Version = m2.Version => m1 = m2
       /\ {m.Version : m \in ms} = 1..Cardinality(ms)

\* C16: when the versions of the embedded migration files are not exactly
\* 1, 2, ..., N (a gap, a duplicate, a first version other than 1), Migrate and
\* MigrateTo fail and apply no migration.
SequenceGuard ==
    (AfterRun /\ ~DenseFromOne(migrationsFS)) => (migPc = "error" /\ NothingApplied)

\* a run failed on a fresh database whose directory starts at version 2
GapRefused ==
    /\ AfterRun /\ migPc = "error"
    /\ migRun.rows = EmptyTable
    /\ {m.Version : m \in ParsedMigrations(migrationsFS)} = {2}

\* the migrations the run applied without error
AppliedInRun == {migRun.attempted[i].migration :
                    i \in {j \in DOMAIN migRun.attempted : ~migRun.attempted[j].err}}

\* C17: when applyMigration fails, the failed migration leaves neither schema
\* changes nor a row, the run stops there (no later migration is attempted),
\* and what the run applied before stays applied and recorded.
ApplyFailureAborts ==
    AfterRun =>
        /\ \A i \in DOMAIN migRun.attempted :
              migRun.attempted[i].err =>
                  /\ i = Len(migRun.attempted)
                  /\ migPc = "error"
                  /\ migToApply = <<>>
        /\ schemaObjects = migRun.schema \cup {<<m.Version, m.SQL>> : m \in AppliedInRun}
        /\ DOMAIN schema_migrations = DOMAIN migRun.rows \cup {m.Version : m \in AppliedInRun}
        /\ \A v \in DOMAIN migRun.rows : schema_migrations[v] = migRun.rows[v]
        /\ \A m \in AppliedInRun : schema_migrations[m.Version] = MigrationRow(m, migNow)

\* a run applied migration 1 and failed on migration 2 with migration 3 pending
SecondApplyFailed ==
    /\ AfterRun /\ migPc = "error"
    /\ Len(migRun.attempted) = 2
    /\ ~migRun.attempted[1].err /\ migRun.attempted[2].err
    /\ \E m \in ParsedMigrations(migrationsFS) : m.Version = 3

-----------------------------------------------------------------------------
(* Properties of the webhook registry (specification SpecAdmin) *)

\* C19: delivery attempt records are append-only and kept: a row RecordDelivery
\* has inserted is never changed or removed, whatever deliveries, retries,
\* webhook creations, updates or deletions follow.
DeliveriesAppendOnly == recorded \subseteq deliveries

\* C20: after any sequence of POST creations, PUT updates and startup
\* registrations of the primary webhook, every stored registration has a
\* non-empty event_types list whose elements are all supported ("message").
EventTypesValid ==
    \A eventTypes \in StoredEventTypes(registrations) :
        /\ eventTypes # <<>>
        /\ \A i \in DOMAIN eventTypes : eventTypes[i] \in supportedEventTypes

-----------------------------------------------------------------------------
(* Properties of the admin endpoints (specification SpecServe) *)

\* C21: a request whose Authorization header is not exactly "Bearer " followed
\* by the API key is answered 401 and neither reads nor changes the webhook
\* registrations or the delivery records, and makes no test delivery.
UnauthorizedRejected ==
    [][(httpReq'.n # httpReq.n /\ httpReq'.authorization # <<"Bearer", " ", "k1">>)
          => /\ httpStatus' = "401"
             /\ UNCHANGED <<registrations, deliveries, recorded, storeReads, testDeliveries>>
      ]_vars

\* a request with the key followed by more bytes was answered 401 while a
\* webhook was registered
LongerKeyRejected ==
    /\ httpStatus = "401"
    /\ httpReq.authorization = <<"Bearer", " ", "k1", "x">>
    /\ registrations # EmptyTable

-----------------------------------------------------------------------------
(* Properties of send_message (specification SpecSend) *)

\* C22: after send_message succeeded the store holds a message row with the
\* returned id, is_from_me = true, keyed to the chat it was sent to, whether or
\* not the chat had a row.
SentMessageStored ==
    sendRes.ok =>
        /\ sendRes.id \in DOMAIN messages
        /\ messages[sendRes.id].is_from_me
        /\ messages[sendRes.id].chat_jid = sendRes.chat

-----------------------------------------------------------------------------
(* Properties of the read tools (specification SpecQuery) *)

\* C23: search_messages with from = J and no query returns exactly the stored
\* messages whose sender_jid is J, newest first.
SearchFromReturnsSender ==
    (toolCall.tool = "search_messages" /\ toolCall.from # Absent /\ toolCall.query = Absent)
        => /\ ~toolRes.isError
           /\ {toolRes.rows[i] : i \in DOMAIN toolRes.rows}
                 = {id \in DOMAIN messages : messages[id].sender_jid = toolCall.from[1]}
           /\ \A i, j \in DOMAIN toolRes.rows :
                 i < j => messages[toolRes.rows[i]].timestamp >= messages[toolRes.rows[j]].timestamp

\* C27: whatever the limit argument is (absent, zero, negative, fractional,
\* above the maximum), list_chats returns at most 100 chats and
\* get_chat_messages and search_messages at most 200 messages.
LimitCapped ==
    /\ toolCall.tool = "list_chats" => Len(toolRes.rows) <= 100
    /\ toolCall.tool \in {"get_chat_messages", "search_messages"} => Len(toolRes.rows) <= 200

-----------------------------------------------------------------------------
(* Properties of media handling (specification SpecMedia) *)

\* C24: once a live Message event carrying downloadable media has been handled
\* (no statement failing for a reason of the database), the store holds the
\* media_metadata row of that message together with its messages row, and the
\* messages row existed when the media_metadata row was inserted.
MediaRowWithMessage ==
    (mediaLast.mediaType = "image" /\ mediaLast.clean)
        => /\ mediaLast.id \in DOMAIN media_metadata
           /\ mediaLast.id \in DOMAIN messages
           /\ mediaLast.fk

\* C25: the status a download task writes last is downloaded when an attempt
\* succeeded, expired when it ended on a 404/410 error, failed otherwise.
FinalDownloadStatus ==
    \A i \in DOMAIN downloads :
        downloads[i].pc = "done" =>
            downloads[i].status = CASE downloads[i].cause = "ok" -> "downloaded"
                                    [] downloads[i].cause = "gone" -> "expired"
                                    [] OTHER -> "failed"

-----------------------------------------------------------------------------
(* Retry schedule of one delivery (specification Spec) *)

\* the tasks of payload p still to be delivered: queued, held by a worker, or
\* waiting in a retry goroutine
PendingFor(p) ==
    {deliveryChan[i] : i \in {j \in DOMAIN deliveryChan : deliveryChan[j].payload = p}}
        \cup {workerTask[w] : w \in {v \in Workers : workerTask[v].payload = p}}
        \cup {r.task : r \in {q \in retries : q.task.payload = p}}

\* every retry waits its entry of the backoff table: 5 s before attempt 2,
\* 15 s before attempt 3
RetryDelays ==
    \A r \in retries : /\ r.task.attempt = 2 => r.delay >= 5
                       /\ r.task.attempt = 3 => r.delay >= 15

\* With MaxRetries = 3, a webhook whose third attempt succeeded has the rows of
\* attempts 1, 2 and 3 for its payload, only the third successful, nothing of
\* it pending, and its retries waited 5 s and 15 s.
RetryThenSuccessPerWebhook ==
    cfgMaxRetries = 3 =>
        /\ RetryDelays
        /\ \A k \in DOMAIN attemptsMade :
              [webhook_id |-> k[1], payload_id |-> k[2], attempt_number |-> 3,
               success |-> TRUE] \in deliveries
                  => /\ attemptsMade[k] = 3
                     /\ Cardinality(RowsOf(k)) = 3
                     /\ \A d \in RowsOf(k) : /\ d.attempt_number \in 1..3
                                             /\ d.success <=> d.attempt_number = 3
                     /\ \A t \in PendingFor(k[2]) : t.webhook # k[1]

\* C26: with MaxRetries = 3, when attempts 1 and 2 of a webhook failed and its
\* attempt 3 succeeded, exactly three rows are recorded for that payload id,
\* numbered 1, 2, 3, only the third successful; attempt 2 waited at least 5 s
\* and attempt 3 at least 15 s; no attempt follows the success.
ThreeRowsForPayload ==
    cfgMaxRetries = 3 =>
        /\ RetryDelays
        /\ \A k \in DOMAIN attemptsMade :
              [webhook_id |-> k[1], payload_id |-> k[2], attempt_number |-> 3,
               success |-> TRUE] \in deliveries
                  => LET rows == {d \in deliveries : d.payload_id = k[2]}
                     IN /\ Cardinality(rows) = 3
                        /\ \A d \in rows : /\ d.attempt_number \in 1..3
                                           /\ d.success <=> d.attempt_number = 3
                        /\ \A t \in PendingFor(k[2]) : t.webhook # k[1]

-----------------------------------------------------------------------------
(* Shutdown order (specification Spec) *)

\* waClient.Disconnect() has returned
ClientDisconnected == mainPc = "done"

\* C28: on shutdown the protocol client is disconnected before the webhook
\* delivery channel is closed: whenever the channel is closed, Disconnect has
\* already returned.
DisconnectBeforeClose == chanClosed => ClientDisconnected

-----------------------------------------------------------------------------
(* Registrations and signals of on-demand sync (specification SpecSync) *)

\* C29: once a wait=true RequestHistorySync call has returned (signal, timeout
\* or failed send), historySyncChans holds no entry with the channel that call
\* registered.
NoRegistrationAfterReturn ==
    \A r \in Reqs :
        (reqPc[r] = "returned" /\ reqArgs[r].wait)
            => \A j \in DOMAIN historySyncChans : historySyncChans[j] # r

\* one wait=true call has returned on its timeout and another on its signal
TimedOutAndSignalled ==
    \E r, q \in Reqs :
        /\ reqPc[r] = "returned" /\ reqResult[r].kind = "timeout"
        /\ reqPc[q] = "returned" /\ reqResult[q].kind = "messages"

-----------------------------------------------------------------------------
(* Retries and shutdown (specification Spec) *)

\* C31: once Stop() has cancelled the context, no retry goroutine enqueues its
\* task or sends on the closed delivery channel.
RetryObservesCancel ==
    [][ctxDone => ~(\E r \in retries : RetryEnqueue(r) \/ RetrySendClosed(r))]_vars

-----------------------------------------------------------------------------
(* The download task (specifications SpecMedia, SpecMediaLive) *)

\* a download made at most 3 attempts, waited 1 s before the second and 2 s
\* before the third, and every attempt but the last failed with a retryable error
AttemptsAsScheduled ==
    \A i \in DOMAIN downloads :
        LET d == downloads[i] IN
        /\ d.attempt \in 1..3
        /\ d.waits = SubSeq(<<1, 2>>, 1, d.attempt - 1)
        /\ Len(d.allErrors) <= 3
        /\ \A k \in DOMAIN d.allErrors :
              d.allErrors[k] \in {"404", "410"} => (k = Len(d.allErrors) /\ d.pc = "done")

AllDownloadsDone == \A i \in DOMAIN downloads : downloads[i].pc = "done"

CancelledDownloadKeepsStatus ==
    [][clientCancelled => media_metadata' = media_metadata]_vars

-----------------------------------------------------------------------------
(* The batch of a HistorySync event (specification SpecHistory) *)

\* C38: every message put in the SaveBulk batch of a HistorySync event has a
\* non-empty canonical ChatJID, and the event's chat table holds an entry for it.
BatchChatsTracked ==
    [][(hsPc = "idle" /\ hsPc' # "idle")
          => \A i \in DOMAIN hsMsgs' : /\ hsMsgs'[i].ChatJID # <<>>
                                       /\ hsMsgs'[i].ChatJID \in DOMAIN hsPending']_vars

-----------------------------------------------------------------------------
(* Keys of the PushName cache (specification SpecNames) *)

\* C34: every key ingestion writes to the PushName cache is the canonical JID
\* of the sender: it is the sender_jid of the sender's stored messages.
PushNameKeysCanonical ==
    \A k \in DOMAIN push_names : \E id \in DOMAIN messages : messages[id].sender_jid = k

-----------------------------------------------------------------------------
(* Workers at shutdown (specification Spec) *)

\* C35: no worker processes a value received from the closed delivery channel
\* (a nil task), so no worker panics.
NoNilTaskProcessed == [][~(\E w \in Workers : WorkerRecvClosed(w))]_vars

-----------------------------------------------------------------------------
(* Overlapping on-demand requests (specification SpecSync) *)

\* C36: every call still waiting for its signal has its own channel registered
\* under its jid; no other call's registration or cleanup replaces or removes it.
WaiterKeepsRegistration ==
    \A r \in Reqs :
        (reqPc[r] = "waiting" /\ ~syncChan[r])
            => /\ reqArgs[r].jid \in DOMAIN historySyncChans
               /\ historySyncChans[reqArgs[r].jid] = r

\* C37: a waiting call is signalled only by the ON_DEMAND batch that answers
\* its own request.
WokenByOwnBatch == \A r \in hsLast.signalled : hsLast.answers = r

-----------------------------------------------------------------------------
(* Files of failed download attempts (specification SpecMedia) *)

\* C39: after a download attempt failed, no file remains at the path generated
\* for that attempt.
FailedAttemptLeavesNoFile ==
    \A i \in DOMAIN downloads :
        \A k \in DOMAIN downloads[i].allErrors :
            generateMediaFilePath(i, k) \notin DOMAIN mediaFiles

-----------------------------------------------------------------------------
(* Recorded versions (specification SpecMigrateRuns) *)

\* C40: in every state reached by Migrate and MigrateTo calls, aborted runs and
\* calls with a target at or below the current version included, the versions
\* recorded in schema_migrations are 1, ..., k for some k, each one the version
\* of an embedded migration.
RecordedIsPrefix ==
    LET embedded == {m.Version : m \in ParsedMigrations(migrationsFS)}
    IN \E k \in 0..Cardinality(embedded) :
          /\ DOMAIN schema_migrations = 1..k
          /\ 1..k \subseteq embedded

\* a run that applied a migration and failed on the next one was followed by a
\* MigrateTo call with a target at or below the current version
AbortedThenLowTarget ==
    /\ migLast = "MigrateTo"
    /\ migPc = "ok"
    /\ migRun.attempted = <<>>
    /\ migRun.after.pc = "error"
    /\ DOMAIN schema_migrations # {}

====
